---------------------------- MODULE Spec2Model ----------------------------
(***************************************************************************)
(* Model of the BESS Current Operating Plan engine of                      *)
(* ercot_code/market_rules/business_practice_manuals/                      *)
(* ERCOT_BESS_COP_Automation.py: COPGenerator (plan generation, SOC        *)
(* trajectory, feasibility repair, AS overlay) and COPValidator.           *)
(*                                                                         *)
(* Numbers.  The program computes in binary floating point (doubles).      *)
(* The model holds every quantity (MW, MWh, MW/min, efficiency) as a whole *)
(* number of 128ths.  Such a value is a double, and the sum, difference    *)
(* and product of two of them is a double too, so that on these values     *)
(* the program's +, - and * do not round and its comparisons are those of  *)
(* the integers.  The decimal constants of the program are not 128ths:     *)
(*   - 0.8 and 0.9 (default targets) lie within 2^-54 of 8/10 and 9/10     *)
(*     (relative), so a product whose exact value 8x/10 or 9x/10 is a      *)
(*     128th is that double; for any other x the product is no 128th and   *)
(*     the model does not define it (Exact);                               *)
(*   - 0.01 (SOC tolerance) and 1.05 (ramp tolerance) only enter           *)
(*     comparisons of a 128th with a bound that is either a 128th itself   *)
(*     or further than 1/3000 from every 128th, where rounding the bound   *)
(*     cannot change the outcome; the model compares the exact values.     *)
(* A product x*efficiency that is no 128th is not defined either.  Prices  *)
(* are whole $/MWh.  A missing number (pandas NaN) is the value NaN;       *)
(* comparisons with it are false and arithmetic on it gives NaN, as in     *)
(* Python.                                                                 *)
(***************************************************************************)
EXTENDS Integers, Sequences, FiniteSets, TLC

VARIABLES
    bess,      \* the BESSParameters shared by generator and validator
    cop,       \* the plan (DataFrame) in the caller's hands
    args,      \* the arguments of the operation that produced cop
    report,    \* what the last validate call returned (or raised)
    op,        \* the last operation performed
    cop_data,  \* the generator's cop_data attribute
    calls,     \* the generate_cop calls made so far: inputs and returned plan
    caller,    \* the price forecast and AS commitments the caller holds
    validator, \* the validator's validation_errors and validation_warnings
    heap,      \* the list objects validate has created, by identity
    reports,   \* the results dicts validate has returned, lists by identity
    submitter, \* the submitter's credentials and submission_history
    sent,      \* the payloads posted to the ERCOT endpoint
    results    \* what the last run_daily_cop returned

vars == <<bess, cop, args, report, op, cop_data, calls, caller,
          validator, heap, reports, submitter, sent, results>>

\* The model's unit is 1/128 (of a MW, a MWh, a MW/min, of efficiency 1).
Unit == 128

\* One MW (MWh, MW/min) in model units.
MW(x) == x * Unit

\* n / d where the quotient is a whole number of units; a quotient that is
\* not is a double the model cannot hold, and is left undefined
Exact(n, d) == CASE n % d = 0 -> n \div d

NaN == 0 - 999999999

IsNaN(x) == x = NaN

\* Python's float arithmetic and comparisons in the presence of NaN.
Add(a, b) == IF IsNaN(a) \/ IsNaN(b) THEN NaN ELSE a + b
Sub(a, b) == IF IsNaN(a) \/ IsNaN(b) THEN NaN ELSE a - b
Neg(a) == IF IsNaN(a) THEN NaN ELSE 0 - a
Lt(a, b) == ~IsNaN(a) /\ ~IsNaN(b) /\ a < b
Gt(a, b) == Lt(b, a)
Abs(a) == IF IsNaN(a) THEN NaN ELSE IF a < 0 THEN 0 - a ELSE a

\* Python's builtin min(a, b) and max(a, b): the first argument unless the
\* second compares strictly smaller (larger).
PyMin(a, b) == IF Lt(b, a) THEN b ELSE a
PyMax(a, b) == IF Gt(b, a) THEN b ELSE a

\* x * efficiency, both in 128ths
TimesEff(x, b) == IF IsNaN(x) THEN NaN ELSE Exact(x * b.efficiency, Unit)

RECURSIVE Collect(_, _, _)
\* F(lo) \o F(lo+1) \o ... \o F(hi)
Collect(F(_), lo, hi) ==
    IF lo > hi THEN <<>>
    ELSE IF lo = hi THEN F(lo)
    ELSE LET mid == (lo + hi) \div 2
         IN Collect(F, lo, mid) \o Collect(F, mid + 1, hi)

\* <<F(1), ..., F(n)>>
Build(F(_), n) == LET One(i) == <<F(i)>> IN Collect(One, 1, n)

\* <<F(s[1]), ..., F(s[Len(s)])>>
MapRows(F(_), s) == LET One(i) == <<F(s[i])>> IN Collect(One, 1, Len(s))

-----------------------------------------------------------------------------
(* ResourceStatus and BESSParameters *)

ResourceStatus == {"ON", "OFF", "ONTEST", "ONREG", "ONRR", "ONECRS", "OFFNS",
                   "OFFQS", "OUT", "STARTUP", "SHUTDOWN", "ONEMR"}

hsl(b) == b.capacity_mw

lsl(b) == 0 - b.capacity_mw

\* capacity, SOC limits and ramp rate in whole MW, MWh and MW/min, the
\* efficiency in 128ths (128 is 1.0, 112 is 0.875, 64 is 0.5)
BESSParameters(cap, eff, mn, mx, ramp) ==
    [resource_name |-> "BESS", capacity_mw |-> MW(cap), capacity_mwh |-> MW(mx),
     efficiency |-> eff, ramp_rate_up |-> MW(ramp), ramp_rate_down |-> MW(ramp),
     min_soc |-> MW(mn), max_soc |-> MW(mx), aux_load |-> 0]

-----------------------------------------------------------------------------
(* A plan is a DataFrame: its column names, its index labels and its rows,  *)
(* each row a record over the columns.  Hours are whole hours counted from  *)
(* midnight of some day, so hour h has hour-of-day h % 24.                  *)

DataFrame(columns, index, rows) ==
    [columns |-> columns, index |-> index, rows |-> rows]

NRows(df) == Len(df.rows)

\* cop[col] = value, for every row (creates or overwrites the column)
SetColumn(df, col, Val(_)) ==
    [df EXCEPT !.columns = @ \cup {col},
               !.rows = LET Set(r) == (col :> Val(r)) @@ r IN MapRows(Set, @)]

\* cop.loc[hour, col] = value inside a loop over every row: the column
\* exists afterwards only if the loop ran at least once.
SetColumnByRow(df, col, Val(_)) ==
    IF NRows(df) = 0 THEN df ELSE SetColumn(df, col, Val)

-----------------------------------------------------------------------------
(* COPGenerator *)

\* hours [0,6) charge at lsl*0.8, [6,10) hold, [14,20) discharge at
\* hsl*0.9, every other hour hold
DefaultMode(hour_of_day) ==
    IF 0 <= hour_of_day /\ hour_of_day < 6 THEN "charge"
    ELSE IF 6 <= hour_of_day /\ hour_of_day < 10 THEN "hold"
    ELSE IF 14 <= hour_of_day /\ hour_of_day < 20 THEN "discharge"
    ELSE "hold"

\* the default target as it would be at full power
DefaultTargetFullPower(b, hour_of_day) ==
    IF 0 <= hour_of_day /\ hour_of_day < 6 THEN lsl(b)
    ELSE IF 6 <= hour_of_day /\ hour_of_day < 10 THEN 0
    ELSE IF 14 <= hour_of_day /\ hour_of_day < 20 THEN hsl(b)
    ELSE 0

\* the default target as it would be were it a share of capacity_mwh
DefaultTargetOfEnergy(b, hour_of_day) ==
    IF 0 <= hour_of_day /\ hour_of_day < 6 THEN 0 - Exact(b.capacity_mwh * 8, 10)
    ELSE IF 6 <= hour_of_day /\ hour_of_day < 10 THEN 0
    ELSE IF 14 <= hour_of_day /\ hour_of_day < 20 THEN Exact(b.capacity_mwh * 9, 10)
    ELSE 0

DefaultTarget(b, hour_of_day) ==
    IF 0 <= hour_of_day /\ hour_of_day < 6 THEN Exact(lsl(b) * 8, 10)
    ELSE IF 6 <= hour_of_day /\ hour_of_day < 10 THEN 0
    ELSE IF 14 <= hour_of_day /\ hour_of_day < 20 THEN Exact(hsl(b) * 9, 10)
    ELSE 0

PriceMode(price) ==
    IF Gt(price, 80) THEN "discharge"
    ELSE IF Lt(price, 25) THEN "charge"
    ELSE IF Gt(price, 50) THEN "discharge"
    ELSE "hold"

\* the priced target as it would be were the thresholds inclusive
PriceTargetInclusive(b, price) ==
    IF ~IsNaN(price) /\ price >= 80 THEN hsl(b)
    ELSE IF ~IsNaN(price) /\ price <= 25 THEN lsl(b)
    ELSE IF ~IsNaN(price) /\ price >= 50 THEN Exact(hsl(b), 2)
    ELSE 0

PriceTarget(b, price) ==
    IF Gt(price, 80) THEN hsl(b)
    ELSE IF Lt(price, 25) THEN lsl(b)
    ELSE IF Gt(price, 50) THEN Exact(hsl(b), 2)
    ELSE 0

\* the SOC change as it would be were charging free of losses
SocChangeNoLoss(b, prev_target) == Neg(prev_target)

\* the SOC change over one hour run at target_mw
SocChange(b, prev_target) ==
    IF Gt(prev_target, 0) THEN Neg(prev_target)
    ELSE IF Lt(prev_target, 0) THEN TimesEff(Neg(prev_target), b)
    ELSE 0

RECURSIVE Trajectory(_, _, _, _, _)
\* the loop of _calculate_soc_trajectory over rows i..last: acc holds the
\* soc_begin of rows 1..i-1 (Len(acc) = i - 1 throughout)
Trajectory(b, rows, i, last, acc) ==
    IF i > last \/ Len(acc) < i - 1 THEN acc
    ELSE Trajectory(b, rows, i + 1, last,
                    Append(acc, Add(acc[i - 1], SocChange(b, rows[i - 1].target_mw))))

RECURSIVE TrajectoryLoop(_, _, _, _)
\* the same loop run in stretches of 16 rows, which keeps the evaluation of
\* a week-long plan shallow
TrajectoryLoop(b, rows, i, acc) ==
    IF i > Len(rows) \/ Len(acc) < i - 1 THEN acc
    ELSE LET last == IF i + 15 < Len(rows) THEN i + 15 ELSE Len(rows)
         IN TrajectoryLoop(b, rows, last + 1, Trajectory(b, rows, i, last, acc))

\* an Optional argument left at None, and one given a value
None == [given |-> FALSE]

Some(v) == [given |-> TRUE, value |-> v]

\* the first SOC as it would be did the trajectory start at min_soc
InitialSocAtMin(b) == b.min_soc

\* the SOC a trajectory starts from when none is supplied: 50% of max_soc
InitialSoc(b) == Exact(b.max_soc, 2)

_calculate_soc_trajectory(b, df, initial_soc) ==
    LET first == IF initial_soc.given THEN initial_soc.value ELSE InitialSoc(b)
        soc == IF NRows(df) = 0 THEN <<>>
               ELSE TrajectoryLoop(b, df.rows, 2, <<first>>)
        WithSoc(i) == ("soc_begin" :> soc[i]) @@ df.rows[i]
        withSoc == [df EXCEPT !.columns = @ \cup {"soc_begin"},
                              !.rows = Build(WithSoc, NRows(df))]
        SocMin(r) == PyMax(b.min_soc, Sub(r.soc_begin, hsl(b)))
        SocMax(r) == PyMin(b.max_soc, Add(r.soc_begin, TimesEff(Abs(lsl(b)), b)))
    IN SetColumn(SetColumn(withSoc, "soc_min", SocMin), "soc_max", SocMax)

_generate_default_plan(b, df) ==
    LET On(r) == "ON"
        Hsl(r) == hsl(b)
        Lsl(r) == lsl(b)
        Half(r) == InitialSoc(b)
        Mode(r) == DefaultMode(r.hour_ending % 24)
        Target(r) == DefaultTarget(b, r.hour_ending % 24)
        base == SetColumn(SetColumn(SetColumn(SetColumn(df,
                    "status", On), "hsl", Hsl), "lsl", Lsl), "soc_begin", Half)
        planned == SetColumnByRow(SetColumnByRow(base, "mode", Mode),
                                  "target_mw", Target)
    IN _calculate_soc_trajectory(b, planned, None)

\* A price forecast is [columns, price]: price maps the hours the forecast
\* has a row for to that row's price.  The left merge on the index gives the
\* plan every column of the forecast, NaN where the forecast has no row.
_optimize_for_prices(b, df, price_forecast) ==
    LET On(r) == "ON"
        Hsl(r) == hsl(b)
        Lsl(r) == lsl(b)
        Merged(r) == IF r.hour_ending \in DOMAIN price_forecast.price
                     THEN price_forecast.price[r.hour_ending] ELSE NaN
        base == SetColumn(SetColumn(SetColumn(df,
                    "status", On), "hsl", Hsl), "lsl", Lsl)
        merged == IF "price" \in price_forecast.columns
                  THEN SetColumn(base, "price", Merged) ELSE base
        Price(r) == IF "price" \in merged.columns THEN r.price ELSE 50
        Mode(r) == PriceMode(Price(r))
        Target(r) == PriceTarget(b, Price(r))
        planned == SetColumnByRow(SetColumnByRow(merged, "mode", Mode),
                                  "target_mw", Target)
    IN _calculate_soc_trajectory(b, planned, None)

RECURSIVE RepairFrom(_, _, _, _)
\* the loop of _ensure_soc_feasibility over the pairs (i, i+1) .. (last,
\* last+1), rows from 1; each pair reads the soc_begin the earlier pairs left
RepairFrom(b, rows, i, last) ==
    IF i > last THEN rows
    ELSE LET current_soc == rows[i].soc_begin
             next_soc == rows[i + 1].soc_begin
             max_discharge == PyMin(hsl(b), Sub(current_soc, b.min_soc))
             max_charge == PyMin(TimesEff(Abs(lsl(b)), b),
                                 Sub(b.max_soc, current_soc))
             soc_change == Sub(next_soc, current_soc)
         IN IF Gt(soc_change, max_charge)
            THEN RepairFrom(b,
                   [rows EXCEPT ![i + 1].soc_begin = Add(current_soc, max_charge),
                                ![i].target_mw = lsl(b)], i + 1, last)
            ELSE IF Lt(soc_change, Neg(max_discharge))
            THEN RepairFrom(b,
                   [rows EXCEPT ![i + 1].soc_begin = Sub(current_soc, max_discharge),
                                ![i].target_mw = hsl(b)], i + 1, last)
            ELSE RepairFrom(b, rows, i + 1, last)

\* the repair as it would be did every pair read the SOC of the input
RepairFromInput(b, rows, i) ==
    LET Repaired(k) ==
            IF k = 1 THEN rows[1]
            ELSE [RepairFrom(b, rows, k - 1, k - 1)[k]
                    EXCEPT !.target_mw =
                        IF k < Len(rows) THEN RepairFrom(b, rows, k, k)[k].target_mw
                        ELSE @]
    IN IF Len(rows) = 0 THEN rows ELSE Build(Repaired, Len(rows))

RECURSIVE RepairLoop(_, _, _)
\* the same loop run in stretches of 16 pairs
RepairLoop(b, rows, i) ==
    IF i >= Len(rows) THEN rows
    ELSE LET last == IF i + 15 < Len(rows) - 1 THEN i + 15 ELSE Len(rows) - 1
         IN RepairLoop(b, RepairFrom(b, rows, i, last), last + 1)

\* Clip as it would be were the lower threshold forgotten
ClipUpperOnly(x, lower, upper) ==
    IF IsNaN(x) THEN x ELSE IF x > upper THEN upper ELSE x

\* Series.clip(lower, upper): pandas orders two scalar thresholds before
\* clipping, and leaves NaN alone
Clip(x, lower, upper) ==
    LET lo == IF lower <= upper THEN lower ELSE upper
        hi == IF lower <= upper THEN upper ELSE lower
    IN IF IsNaN(x) THEN x ELSE IF x < lo THEN lo ELSE IF x > hi THEN hi ELSE x

\* feasibility enforcement as it would be did it end by setting each target
\* to the SOC change that follows it
EnsureRecomputingTargets(b, df) ==
    LET repaired == RepairLoop(b, df.rows, 1)
        Clipped(r) == [r EXCEPT !.soc_begin = Clip(@, b.min_soc, b.max_soc)]
        clipped == MapRows(Clipped, repaired)
        Retargeted(i) ==
            IF i = Len(clipped) THEN clipped[i]
            ELSE [clipped[i] EXCEPT !.target_mw =
                      Sub(clipped[i].soc_begin, clipped[i + 1].soc_begin)]
    IN [df EXCEPT !.rows = Build(Retargeted, Len(clipped))]

_ensure_soc_feasibility(b, df) ==
    LET repaired == RepairLoop(b, df.rows, 1)
        Clipped(r) == [r EXCEPT !.soc_begin = Clip(@, b.min_soc, b.max_soc)]
    IN [df EXCEPT !.rows = MapRows(Clipped, repaired)]

\* AS commitments are [columns, rows]: rows maps the hours the frame has a
\* row for to that row.  A column the frame lacks reads as 0.
AsValue(as_commitments, hour, col) ==
    IF col \in as_commitments.columns THEN as_commitments.rows[hour][col] ELSE 0

\* the overlay as it would be were every positive commitment applied in turn
ApplyEveryAs(r, reg_mw, rrs_mw, ecrs_mw) ==
    LET reg == IF Gt(reg_mw, 0)
               THEN [r EXCEPT !.status = "ONREG", !.target_mw = 0] ELSE r
        rrs == IF Gt(rrs_mw, 0)
               THEN [reg EXCEPT !.status = "ONRR", !.soc_min = PyMax(@, rrs_mw)]
               ELSE reg
    IN IF Gt(ecrs_mw, 0)
       THEN [rrs EXCEPT !.status = "ONECRS", !.soc_min = PyMax(@, ecrs_mw * 2)]
       ELSE rrs

\* the overlay as it would be did a reserve replace soc_min
ApplyAsReplacing(r, reg_mw, rrs_mw, ecrs_mw) ==
    IF Gt(reg_mw, 0)
    THEN [r EXCEPT !.status = "ONREG", !.target_mw = 0]
    ELSE IF Gt(rrs_mw, 0)
    THEN [r EXCEPT !.status = "ONRR", !.soc_min = rrs_mw]
    ELSE IF Gt(ecrs_mw, 0)
    THEN [r EXCEPT !.status = "ONECRS", !.soc_min = ecrs_mw * 2]
    ELSE r

\* the overlay as it would be did a commitment of 0 count as one
ApplyAsFromZero(r, reg_mw, rrs_mw, ecrs_mw) ==
    IF ~Lt(reg_mw, 0) /\ ~IsNaN(reg_mw)
    THEN [r EXCEPT !.status = "ONREG", !.target_mw = 0]
    ELSE IF ~Lt(rrs_mw, 0) /\ ~IsNaN(rrs_mw)
    THEN [r EXCEPT !.status = "ONRR", !.soc_min = PyMax(@, rrs_mw)]
    ELSE IF ~Lt(ecrs_mw, 0) /\ ~IsNaN(ecrs_mw)
    THEN [r EXCEPT !.status = "ONECRS", !.soc_min = PyMax(@, ecrs_mw * 2)]
    ELSE r

\* the overlay on one plan row
ApplyAsToRow(r, reg_mw, rrs_mw, ecrs_mw) ==
    IF Gt(reg_mw, 0)
    THEN [r EXCEPT !.status = "ONREG", !.target_mw = 0]
    ELSE IF Gt(rrs_mw, 0)
    THEN [r EXCEPT !.status = "ONRR", !.soc_min = PyMax(@, rrs_mw)]
    ELSE IF Gt(ecrs_mw, 0)
    THEN [r EXCEPT !.status = "ONECRS", !.soc_min = PyMax(@, ecrs_mw * 2)]
    ELSE r

_apply_as_commitments(df, as_commitments) ==
    LET Overlaid(i) ==
            IF df.index[i] \in DOMAIN as_commitments.rows
            THEN ApplyAsToRow(df.rows[i],
                     AsValue(as_commitments, df.index[i], "regulation"),
                     AsValue(as_commitments, df.index[i], "rrs"),
                     AsValue(as_commitments, df.index[i], "ecrs"))
            ELSE df.rows[i]
    IN [df EXCEPT !.rows = Build(Overlaid, NRows(df))]

_add_cop_fields(b, df) ==
    LET Added(r) ==
            [normal_ramp_up |-> b.ramp_rate_up,
             normal_ramp_down |-> b.ramp_rate_down,
             emergency_ramp_up |-> Exact(b.ramp_rate_up * 3, 2),
             emergency_ramp_down |-> Exact(b.ramp_rate_down * 3, 2),
             hel |-> r.hsl, lel |-> r.lsl, aux_load |-> b.aux_load,
             resource_type |-> "ESR", fuel_type |-> "BATTERY"]
    IN [df EXCEPT !.columns = @ \cup {"normal_ramp_up", "normal_ramp_down",
                      "emergency_ramp_up", "emergency_ramp_down", "hel", "lel",
                      "aux_load", "resource_type", "fuel_type"},
                  !.rows = LET Add9(r) == Added(r) @@ r IN MapRows(Add9, @)]

\* pd.date_range(start, periods = days*24, freq = 'H') as the index, with
\* the columns hour_ending and resource_name
InitialCop(b, start_date, days) ==
    LET Hour(i) == start_date + i - 1
        Row(i) == [hour_ending |-> Hour(i), resource_name |-> b.resource_name]
    IN DataFrame({"hour_ending", "resource_name"},
                 Build(Hour, days * 24), Build(Row, days * 24))

\* price_forecast and as_commitments are [given |-> FALSE] for None
generate_cop(b, start_date, days, price_forecast, as_commitments) ==
    LET cop0 == InitialCop(b, start_date, days)
        planned == IF price_forecast.given
                   THEN _optimize_for_prices(b, cop0, price_forecast)
                   ELSE _generate_default_plan(b, cop0)
        overlaid == IF as_commitments.given
                    THEN _apply_as_commitments(planned, as_commitments)
                    ELSE planned
    IN _add_cop_fields(b, _ensure_soc_feasibility(b, overlaid))

-----------------------------------------------------------------------------
(* COPValidator.  Every family returns [raised, errors, warnings]: what it  *)
(* appended to validation_errors and validation_warnings, and whether it    *)
(* stopped on a KeyError (a column it reads is not in the plan).  Hours in  *)
(* findings count from 0 as in the program; rows count from 1 here.         *)

\* the dict a per-hour check appends; the message is kept as the words it
\* is made of, without the numbers
Finding(hour, type, severity) ==
    [hour |-> hour, type |-> type, message |-> <<type>>, severity |-> severity]

\* a plan-wide finding as it would be did it name hour 0
PlanFindingAtHour(type, about, severity) ==
    [hour |-> 0, type |-> type, message |-> <<type>> \o about,
     severity |-> severity]

\* a finding of the checks that look at the plan as a whole (no 'hour' key);
\* the message names the fields it is about
PlanFinding(type, about, severity) ==
    [type |-> type, message |-> <<type>> \o about, severity |-> severity]

Outcome(raised, errors, warnings) ==
    [raised |-> raised, errors |-> errors, warnings |-> warnings]

\* the tolerance of 0.01 MWh, in hundredths of a unit
SocTolerance == 128

\* a quantity in hundredths of a unit
Hundredths(x) == IF IsNaN(x) THEN NaN ELSE x * 100

\* x > y + 0.01 for x and y in units: y + 0.01 lies 0.28 of a unit above one
\* whole unit and 0.72 below the next, and so does the double the sum rounds to
ExceedsByTolerance(x, y) == Gt(Hundredths(x), Add(Hundredths(y), SocTolerance))

\* the pair's finding as it would be with the profile's limits for the rows'
SocFeasibilityAtProfile(b, df, i) ==
    LET current == df.rows[i]
        next_hour == df.rows[i + 1]
        max_discharge == PyMin(hsl(b), Sub(current.soc_begin, b.min_soc))
        max_charge == PyMin(TimesEff(Abs(lsl(b)), b),
                            Sub(b.max_soc, current.soc_begin))
        soc_change == Sub(next_hour.soc_begin, current.soc_begin)
    IN IF ExceedsByTolerance(soc_change, max_charge)
       THEN <<Finding(i - 1, "SOC_INFEASIBLE_CHARGE", "ERROR")>>
       ELSE IF ExceedsByTolerance(Neg(soc_change), max_discharge)
       THEN <<Finding(i - 1, "SOC_INFEASIBLE_DISCHARGE", "ERROR")>>
       ELSE <<>>

\* the pair's finding as it would be were the discharge side left out
SocFeasibilityChargeOnly(b, df, i) ==
    LET current == df.rows[i]
        max_charge == PyMin(TimesEff(Abs(current.lsl), b),
                            Sub(current.soc_max, current.soc_begin))
        soc_change == Sub(df.rows[i + 1].soc_begin, current.soc_begin)
    IN IF ExceedsByTolerance(soc_change, max_charge)
       THEN <<Finding(i - 1, "SOC_INFEASIBLE_CHARGE", "ERROR")>>
       ELSE <<>>

\* the finding of pair (i, i+1), rows from 1
SocFeasibilityAt(b, df, i) ==
    LET current == df.rows[i]
        next_hour == df.rows[i + 1]
        max_discharge == PyMin(current.hsl, Sub(current.soc_begin, current.soc_min))
        max_charge == PyMin(TimesEff(Abs(current.lsl), b),
                            Sub(current.soc_max, current.soc_begin))
        soc_change == Sub(next_hour.soc_begin, current.soc_begin)
    IN IF ExceedsByTolerance(soc_change, max_charge)
       THEN <<Finding(i - 1, "SOC_INFEASIBLE_CHARGE", "ERROR")>>
       ELSE IF ExceedsByTolerance(Neg(soc_change), max_discharge)
       THEN <<Finding(i - 1, "SOC_INFEASIBLE_DISCHARGE", "ERROR")>>
       ELSE <<>>

_validate_soc_feasibility(b, df) ==
    LET At(i) == SocFeasibilityAt(b, df, i)
    IN IF NRows(df) < 2 THEN Outcome(FALSE, <<>>, <<>>)
       ELSE IF ~({"hsl", "soc_begin", "soc_min", "lsl", "soc_max"} \subseteq df.columns)
       THEN Outcome(TRUE, <<>>, <<>>)
       ELSE Outcome(FALSE, Collect(At, 1, NRows(df) - 1), <<>>)

SocBoundsErrorsAt(b, df, i) ==
    LET row == df.rows[i]
    IN IF Lt(row.soc_begin, b.min_soc)
       THEN <<Finding(df.index[i], "SOC_BELOW_MIN", "ERROR")>>
       ELSE IF Gt(row.soc_begin, b.max_soc)
       THEN <<Finding(df.index[i], "SOC_ABOVE_MAX", "ERROR")>>
       ELSE <<>>

SocMinWarningAt(df, i) ==
    IF Gt(df.rows[i].soc_min, df.rows[i].soc_begin)
    THEN <<Finding(df.index[i], "SOC_MIN_INCONSISTENT", "WARNING")>> ELSE <<>>

SocMaxWarningAt(df, i) ==
    IF Lt(df.rows[i].soc_max, df.rows[i].soc_begin)
    THEN <<Finding(df.index[i], "SOC_MAX_INCONSISTENT", "WARNING")>> ELSE <<>>

\* the bounds check as it would be did it stop before the last hour
SocBoundsSkipLast(b, df) ==
    LET E(i) == SocBoundsErrorsAt(b, df, i)
        W(i) == SocMinWarningAt(df, i) \o SocMaxWarningAt(df, i)
    IN IF ~({"soc_begin", "soc_min", "soc_max"} \subseteq df.columns)
       THEN Outcome(NRows(df) > 0, <<>>, <<>>)
       ELSE Outcome(FALSE, Collect(E, 1, NRows(df) - 1), Collect(W, 1, NRows(df) - 1))

\* The first row stops the loop at the first column it cannot read, after
\* whatever that row has appended so far.
_validate_soc_bounds(b, df) ==
    LET E(i) == SocBoundsErrorsAt(b, df, i)
        W(i) == SocMinWarningAt(df, i) \o SocMaxWarningAt(df, i)
    IN IF NRows(df) = 0 THEN Outcome(FALSE, <<>>, <<>>)
       ELSE IF "soc_begin" \notin df.columns THEN Outcome(TRUE, <<>>, <<>>)
       ELSE IF "soc_min" \notin df.columns THEN Outcome(TRUE, E(1), <<>>)
       ELSE IF "soc_max" \notin df.columns
       THEN Outcome(TRUE, E(1), SocMinWarningAt(df, 1))
       ELSE Outcome(FALSE, Collect(E, 1, NRows(df)), Collect(W, 1, NRows(df)))

\* row.get('target_mw', 0)
TargetOf(df, i) == IF "target_mw" \in df.columns THEN df.rows[i].target_mw ELSE 0

\* the pair's warning as it would be were the status of the hours not looked at
RampAtAnyStatus(df, i) ==
    LET current == df.rows[i]
        mw_change == Abs(Sub(TargetOf(df, i + 1), TargetOf(df, i)))
        max_ramp == LET m == PyMax(current.normal_ramp_up, current.normal_ramp_down)
                    IN IF IsNaN(m) THEN NaN ELSE m * 60
    IN IF "target_mw" \notin df.columns THEN <<>>
       ELSE IF ~IsNaN(mw_change) /\ ~IsNaN(max_ramp) /\ mw_change * 100 > max_ramp * 105
       THEN <<Finding(i - 1, "RAMP_RATE_EXCEEDED", "WARNING")>>
       ELSE <<>>

RampAt(df, i) ==
    LET current == df.rows[i]
        next_hour == df.rows[i + 1]
        mw_change == Abs(Sub(TargetOf(df, i + 1), TargetOf(df, i)))
        max_ramp == LET m == PyMax(current.normal_ramp_up, current.normal_ramp_down)
                    IN IF IsNaN(m) THEN NaN ELSE m * 60
    IN IF current.status # next_hour.status THEN <<>>
       ELSE IF "target_mw" \notin df.columns THEN <<>>
       \* mw_change > max_ramp * 1.05
       ELSE IF ~IsNaN(mw_change) /\ ~IsNaN(max_ramp) /\ mw_change * 100 > max_ramp * 105
       THEN <<Finding(i - 1, "RAMP_RATE_EXCEEDED", "WARNING")>>
       ELSE <<>>

_validate_ramp_rates(df) ==
    LET At(i) == RampAt(df, i)
        SameStatus(i) == df.rows[i].status = df.rows[i + 1].status
    IN IF NRows(df) < 2 THEN Outcome(FALSE, <<>>, <<>>)
       ELSE IF "status" \notin df.columns THEN Outcome(TRUE, <<>>, <<>>)
       ELSE IF /\ "target_mw" \in df.columns
               /\ ~({"normal_ramp_up", "normal_ramp_down"} \subseteq df.columns)
               /\ \E i \in 1..(NRows(df) - 1) : SameStatus(i)
       THEN Outcome(TRUE, <<>>, <<>>)
       ELSE Outcome(FALSE, <<>>, Collect(At, 1, NRows(df) - 1))

\* the hour's warning as it would be did ECRS need one hour of energy as RRS does
AsRequirementOneHour(df, i) ==
    LET row == df.rows[i]
    IN IF row.status = "ONRR"
       THEN IF Lt(row.soc_begin, row.hsl)
            THEN <<Finding(df.index[i], "INSUFFICIENT_SOC_FOR_RRS", "WARNING")>>
            ELSE <<>>
       ELSE IF row.status = "ONECRS"
       THEN IF Lt(row.soc_begin, row.hsl)
            THEN <<Finding(df.index[i], "INSUFFICIENT_SOC_FOR_ECRS", "WARNING")>>
            ELSE <<>>
       ELSE <<>>

AsRequirementAt(df, i) ==
    LET row == df.rows[i]
    IN IF row.status = "ONRR"
       THEN IF Lt(row.soc_begin, row.hsl)
            THEN <<Finding(df.index[i], "INSUFFICIENT_SOC_FOR_RRS", "WARNING")>>
            ELSE <<>>
       ELSE IF row.status = "ONECRS"
       THEN IF ~IsNaN(row.hsl) /\ Lt(row.soc_begin, row.hsl * 2)
            THEN <<Finding(df.index[i], "INSUFFICIENT_SOC_FOR_ECRS", "WARNING")>>
            ELSE <<>>
       ELSE <<>>

_validate_as_requirements(df) ==
    LET At(i) == AsRequirementAt(df, i)
    IN IF NRows(df) = 0 THEN Outcome(FALSE, <<>>, <<>>)
       ELSE IF "status" \notin df.columns THEN Outcome(TRUE, <<>>, <<>>)
       ELSE IF /\ ~({"hsl", "soc_begin"} \subseteq df.columns)
               /\ \E i \in 1..NRows(df) : df.rows[i].status \in {"ONRR", "ONECRS"}
       THEN Outcome(TRUE, <<>>, <<>>)
       ELSE Outcome(FALSE, <<>>, Collect(At, 1, NRows(df)))

required_fields ==
    <<"hour_ending", "resource_name", "status", "hsl", "lsl", "soc_begin",
      "soc_min", "soc_max", "normal_ramp_up", "normal_ramp_down">>

\* the columns that hold text; their null is None, a number's is NaN
TextColumns == {"resource_name", "status", "mode", "resource_type", "fuel_type"}

IsNull(col, v) == IF col \in TextColumns THEN v = "None" ELSE IsNaN(v)

_validate_data_completeness(df) ==
    LET Missing(k) == IF required_fields[k] \notin df.columns
                      THEN <<required_fields[k]>> ELSE <<>>
        missing_fields == Collect(Missing, 1, Len(required_fields))
        Nulls(k) ==
            LET field == required_fields[k]
            IN IF /\ field \in df.columns
                  /\ \E i \in 1..NRows(df) : IsNull(field, df.rows[i][field])
               THEN <<PlanFinding("NULL_VALUES", <<field>>, "ERROR")>>
               ELSE <<>>
    IN Outcome(FALSE,
               (IF missing_fields # <<>>
                THEN <<PlanFinding("MISSING_FIELDS", missing_fields, "ERROR")>>
                ELSE <<>>) \o Collect(Nulls, 1, Len(required_fields)),
               <<>>)

RequiredHours == 168

_validate_timeline_requirements(df) ==
    Outcome(FALSE, <<>>,
            IF NRows(df) < RequiredHours
            THEN <<PlanFinding("INSUFFICIENT_HORIZON", <<>>, "WARNING")>> ELSE <<>>)

\* one check after another, each appending to what the earlier ones left;
\* a check that raises ends the call
Then(acc, next) ==
    IF acc.raised THEN acc
    ELSE Outcome(next.raised, acc.errors \o next.errors, acc.warnings \o next.warnings)

RunChecks(b, df) ==
    Then(Then(Then(Then(Then(_validate_soc_feasibility(b, df),
                             _validate_soc_bounds(b, df)),
                        _validate_ramp_rates(df)),
                   _validate_as_requirements(df)),
              _validate_data_completeness(df)),
         _validate_timeline_requirements(df))

_generate_validation_summary(errors) ==
    [passed |-> Len(errors) = 0,
     error_count |-> Len(errors),
     error_types |-> {errors[i].type : i \in 1..Len(errors)}]

\* validity as it would be did it need the errors list to hold one entry
IsValidOffByOne(errors) == Len(errors) <= 1

IsValid(errors) == Len(errors) = 0

\* what validate returns: the results dict, or the KeyError it raised
validate(b, df) ==
    LET out == RunChecks(b, df)
    IN IF out.raised THEN [raised |-> "KeyError"]
       ELSE [raised |-> "no",
             valid |-> IsValid(out.errors),
             errors |-> out.errors,
             warnings |-> out.warnings,
             error_count |-> Len(out.errors),
             warning_count |-> Len(out.warnings),
             summary |-> _generate_validation_summary(out.errors)]

-----------------------------------------------------------------------------
(* Inputs of the generator.  Capacities are multiples of 5 MW, for which    *)
(* the default targets 0.8 * lsl and 0.9 * hsl are whole 128ths.           *)

\* <<capacity_mw, efficiency, min_soc, max_soc, ramp_rate>>: profiles that
\* meet capacity_mw > 0 and 0 <= min_soc < max_soc, 0 < efficiency <= 1 ...
PhysicalProfiles ==
    { BESSParameters(100, 112, 0, 200, 50),
      BESSParameters(10, 128, 0, 20, 1),
      BESSParameters(10, 112, 15, 20, 50),
      BESSParameters(5, 128, 0, 500, 1),
      BESSParameters(5, 128, 0, 60, 50),
      BESSParameters(10, 64, 5, 50, 1) }

\* ... and profiles that do not
NonPhysicalProfiles ==
    { BESSParameters(0, 128, 0, 20, 1),
      BESSParameters(0 - 10, 128, 0, 20, 1),
      BESSParameters(10, 128, 20, 20, 1),
      BESSParameters(10, 128, 30, 20, 1) }

Profiles == PhysicalProfiles \cup NonPhysicalProfiles

ValidProfile(b) == b.capacity_mw > 0 /\ b.min_soc < b.max_soc

StartHours == {0, 7, 15}

DefaultDays == 7

DaysChoices == {0, 1, DefaultDays}

\* prices a forecast may carry; NaN also stands for an hour without a row
Prices == {10, 25, 50, 60, 80, 100, NaN}

PatternLen == 2

\* a forecast over the horizon that repeats a pattern of prices
PriceForecast(pattern, start_date, days) ==
    [given |-> TRUE, columns |-> {"price"},
     price |-> [h \in start_date..(start_date + days * 24 - 1) |->
                   pattern[((h - start_date) % PatternLen) + 1]]]

\* a forecast frame with no price column
NoPriceColumn == [given |-> TRUE, columns |-> {}, price |-> << >>]

PriceForecasts(start_date, days) ==
    { PriceForecast(p, start_date, days) : p \in [1..PatternLen -> Prices] }
    \cup {NoPriceColumn}

AsRow(reg_mw, rrs_mw, ecrs_mw) ==
    [rrs |-> rrs_mw, regulation |-> reg_mw, ecrs |-> ecrs_mw]

AsFrame(columns, rows) == [given |-> TRUE, columns |-> columns, rows |-> rows]

AllAs == {"regulation", "rrs", "ecrs"}

RegulationAtSecondHour(start_date) ==
    AsFrame(AllAs, (start_date + 1) :> AsRow(MW(5), MW(5), MW(5)))

AsCommitments(start_date) ==
    { RegulationAtSecondHour(start_date),
      AsFrame(AllAs, (start_date + 1) :> AsRow(0, MW(5), MW(5))
                     @@ (start_date + 2) :> AsRow(0, 0, MW(5))
                     @@ (start_date - 1) :> AsRow(MW(5), 0, 0)),
      AsFrame(AllAs, (start_date + 3) :> AsRow(NaN, MW(50), 0)
                     @@ (start_date + 8) :> AsRow(MW(5), 0, 0)
                     @@ (start_date + 9) :> AsRow(0, 0, 0)),
      AsFrame({"rrs"}, (start_date + 2) :> AsRow(MW(5), MW(5), MW(5))) }

-----------------------------------------------------------------------------
(* Generation: a plan is generated for a profile and then validated. *)

NoReport == [raised |-> "not called"]

\* a caller without forecast and commitments
NothingHeld == [price_forecast |-> None, as_commitments |-> None]

EmptyFrame == DataFrame({}, <<>>, <<>>)

\* credentials as the caller may pass them: complete, or lacking the api key
FullCredentials == [qse_name |-> "QSE", api_key |-> "key", endpoint |-> "url"]

Credentials == { FullCredentials, [qse_name |-> "QSE", endpoint |-> "url"] }

\* the validator and the submitter as their constructors leave them
Constructed(credentials) ==
    /\ validator = [validation_errors |-> 1, validation_warnings |-> 2]
    /\ heap = << <<>>, <<>> >>
    /\ reports = <<>>
    /\ submitter = [credentials |-> credentials, submission_history |-> <<>>]
    /\ sent = <<>>
    /\ results = None

\* the results dict, its lists held by identity
ResultsDict(errors, warnings) ==
    [valid |-> IsValid(heap'[errors]),
     errors |-> errors,
     warnings |-> warnings,
     error_count |-> Len(heap'[errors]),
     warning_count |-> Len(heap'[warnings]),
     summary |-> _generate_validation_summary(heap'[errors])]

\* the lists of the results dict read through their identity
Deref(h, dict) ==
    [dict EXCEPT !.errors = h[@], !.warnings = h[@]] @@ [raised |-> "no"]

\* a validate call as it would be did it append to the lists it holds
ValidateCallKeepingLists(df) ==
    LET out == RunChecks(bess, df)
        errors == validator.validation_errors
        warnings == validator.validation_warnings
    IN /\ heap' = [heap EXCEPT ![errors] = @ \o out.errors,
                               ![warnings] = @ \o out.warnings]
       /\ validator' = validator
       /\ report' = IF out.raised THEN [raised |-> "KeyError"]
                    ELSE Deref(heap', ResultsDict(errors, warnings))
       /\ reports' = IF out.raised THEN reports
                     ELSE Append(reports, [plan |-> df,
                                           results |-> ResultsDict(errors, warnings)])

\* one call of validate on the validator: two new lists take the findings,
\* the results dict refers to them, and a KeyError leaves them half filled
ValidateCall(df) ==
    LET r == validate(bess, df)
        found == IF r.raised = "no" THEN <<r.errors, r.warnings>>
                 ELSE LET out == RunChecks(bess, df)
                      IN <<out.errors, out.warnings>>
        errors == Len(heap) + 1
        warnings == Len(heap) + 2
    IN /\ heap' = heap \o found
       /\ validator' = [validation_errors |-> errors,
                        validation_warnings |-> warnings]
       /\ report' = r
       /\ reports' = IF r.raised = "no"
                     THEN Append(reports, [plan |-> df,
                                           results |-> ResultsDict(errors, warnings)])
                     ELSE reports

GeneratorInit ==
    /\ bess \in Profiles
    /\ cop = EmptyFrame
    /\ args = [op |-> "none"]
    /\ report = NoReport
    /\ op = "init"
    /\ cop_data = None
    /\ calls = <<>>
    /\ caller = NothingHeld
    /\ Constructed(FullCredentials)

\* a call as it would be did a generator that holds a plan leave the
\* commitments out
CallForgettingAs(start_date, days, price_forecast, as_commitments) ==
    /\ cop' = generate_cop(bess, start_date, days, price_forecast,
                           IF cop_data = None THEN as_commitments ELSE None)
    /\ cop_data' = cop'
    /\ args' = [op |-> "generate_cop", start_date |-> start_date, days |-> days,
                price_forecast |-> price_forecast,
                as_commitments |-> as_commitments]
    /\ calls' = Append(calls, [inputs |-> args', plan |-> cop'])
    /\ UNCHANGED <<bess, report, caller, validator, heap, reports,
                   submitter, sent, results>>

\* one call of generate_cop: the plan is returned and kept in cop_data
Call(start_date, days, price_forecast, as_commitments) ==
    /\ cop' = generate_cop(bess, start_date, days, price_forecast, as_commitments)
    /\ cop_data' = cop'
    /\ args' = [op |-> "generate_cop", start_date |-> start_date, days |-> days,
                price_forecast |-> price_forecast,
                as_commitments |-> as_commitments]
    /\ calls' = Append(calls, [inputs |-> args', plan |-> cop'])
    /\ UNCHANGED <<bess, report, caller, validator, heap, reports,
                   submitter, sent, results>>

GenerateCop(start_date, days, price_forecast, as_commitments) ==
    /\ op = "init"
    /\ Call(start_date, days, price_forecast, as_commitments)
    /\ op' = "generated"

GenerateDefault ==
    \E start_date \in StartHours, days \in DaysChoices :
        \E as_commitments \in {None} \cup AsCommitments(start_date) :
            GenerateCop(start_date, days, None, as_commitments)

\* price-optimized plans are generated for one day from midnight
GeneratePriced ==
    \E price_forecast \in PriceForecasts(0, 1) :
        \E as_commitments \in {None, RegulationAtSecondHour(0)} :
            GenerateCop(0, 1, price_forecast, as_commitments)

\* validate reads the plan and returns a report; the plan is the caller's
Validate ==
    /\ op \in {"generated", "plan"}
    /\ ValidateCall(cop)
    /\ op' = "validated"
    /\ UNCHANGED <<bess, cop, args, cop_data, calls, caller,
                   submitter, sent, results>>

-----------------------------------------------------------------------------
(* Feasibility enforcement on its own: _ensure_soc_feasibility applied to   *)
(* any SOC sequence, and again to its own output.                           *)

MaxLen == 3

RepairProfiles ==
    { BESSParameters(10, 128, 0, 20, 1),
      BESSParameters(10, 112, 0, 20, 1),
      BESSParameters(2, 128, 5, 20, 1),
      BESSParameters(10, 64, 5, 19, 1),
      BESSParameters(30, 128, 0, 20, 1) }

\* MWh values below, at, between and above the SOC limits of those profiles
SocInputs == {MW(0 - 5), MW(0), MW(4), MW(10), MW(19), MW(20), MW(28)}

\* the target every hour of an input sequence carries
InputTarget == MW(3)

SocFrame(socs) ==
    LET Pos(i) == i - 1
        Row(i) == [soc_begin |-> socs[i], target_mw |-> InputTarget]
    IN DataFrame({"soc_begin", "target_mw"},
                 Build(Pos, Len(socs)), Build(Row, Len(socs)))

SocSequences == UNION { [1..n -> SocInputs] : n \in 0..MaxLen }

RepairInit ==
    /\ bess \in RepairProfiles
    /\ cop \in { SocFrame(socs) : socs \in SocSequences }
    /\ args = [op |-> "none"]
    /\ report = NoReport
    /\ op = "sequence"
    /\ cop_data = None
    /\ calls = <<>>
    /\ caller = NothingHeld
    /\ Constructed(FullCredentials)

EnsureSocFeasibility ==
    /\ op \in {"sequence", "ensured"}
    /\ cop' = _ensure_soc_feasibility(bess, cop)
    /\ args' = [op |-> "_ensure_soc_feasibility", cop |-> cop]
    /\ op' = "ensured"
    /\ UNCHANGED <<bess, report, cop_data, calls, caller, validator, heap,
                   reports, submitter, sent, results>>


-----------------------------------------------------------------------------
(* Validation on its own: validate applied to any plan a caller hands in.   *)

MaxHours == 2

AuditProfiles ==
    { BESSParameters(10, 128, 0, 20, 1),
      BESSParameters(10, 64, 5, 20, 1) }

\* soc_begin values of the plans handed in: below min_soc, inside the range,
\* at max_soc, and 1/128 and 2/128 MWh above it (a change of 1/128 MWh is
\* within the tolerance of 0.01 MWh, a change of 2/128 MWh is beyond it)
AuditSocs == {MW(0 - 1), MW(5), MW(15), MW(20), MW(20) + 1, MW(20) + 2}

\* <<status, target_mw>> of an hour
AuditKinds == { <<"ON", MW(0)>>, <<"ON", MW(100)>>, <<"ONRR", MW(0)>>,
                <<"ONECRS", MW(0)>> }

Steady == <<"ON", MW(0)>>

\* <<soc_min, soc_max, hsl>> the rows of a plan carry: the profile's own
\* limits, or a narrower or wider bracket and another power limit
RowLimits(b) ==
    { <<b.min_soc, b.max_soc, b.capacity_mw>>,
      <<MW(8), MW(12), b.capacity_mw>>,
      <<MW(0 - 5), MW(30), b.capacity_mw>>,
      <<b.min_soc, b.max_soc, MW(30)>>,
      <<MW(0 - 5), MW(30), MW(30)>>,
      <<MW(8), MW(12), MW(4)>> }

OwnLimits(b) == <<b.min_soc, b.max_soc, b.capacity_mw>>

AuditRow(i, soc, kind, limits) ==
    [hour_ending |-> i - 1, resource_name |-> "BESS", status |-> kind[1],
     hsl |-> limits[3], lsl |-> 0 - limits[3], soc_begin |-> soc,
     soc_min |-> limits[1], soc_max |-> limits[2],
     normal_ramp_up |-> MW(1), normal_ramp_down |-> MW(1), target_mw |-> kind[2]]

AuditColumns ==
    {"hour_ending", "resource_name", "status", "hsl", "lsl", "soc_begin",
     "soc_min", "soc_max", "normal_ramp_up", "normal_ramp_down", "target_mw"}

\* hours is a sequence of <<soc_begin, kind>>
AuditFrame(hours, limits) ==
    LET Pos(i) == i - 1
        Row(i) == AuditRow(i, hours[i][1], hours[i][2], limits)
    IN DataFrame(AuditColumns, Build(Pos, Len(hours)), Build(Row, Len(hours)))

DropColumn(df, col) ==
    LET Without(r) == [c \in (DOMAIN r) \ {col} |-> r[c]]
    IN [df EXCEPT !.columns = @ \ {col}, !.rows = MapRows(Without, @)]

\* the first row's value of the column made null
NullFirst(df, col) ==
    IF NRows(df) = 0 THEN df
    ELSE [df EXCEPT !.rows[1][col] = IF col \in TextColumns THEN "None" ELSE NaN]

DroppedColumns == {"resource_name", "soc_min", "target_mw", "status", "normal_ramp_up"}

NulledColumns == {"resource_name", "soc_min", "soc_max", "soc_begin"}

HourSequences(kinds) == UNION { [1..n -> AuditSocs \X kinds] : n \in 0..MaxHours }

AuditPlans(b) ==
    { AuditFrame(hours, OwnLimits(b)) : hours \in HourSequences(AuditKinds) }
    \cup { AuditFrame(hours, limits) :
              hours \in HourSequences({Steady}), limits \in RowLimits(b) }
    \cup { DropColumn(AuditFrame(hours, OwnLimits(b)), col) :
              hours \in HourSequences({Steady}), col \in DroppedColumns }
    \cup { NullFirst(AuditFrame(hours, OwnLimits(b)), col) :
              hours \in HourSequences({Steady}), col \in NulledColumns }

AuditInit ==
    /\ bess \in AuditProfiles
    /\ cop \in AuditPlans(bess)
    /\ args = [op |-> "none"]
    /\ report = NoReport
    /\ op = "plan"
    /\ cop_data = None
    /\ calls = <<>>
    /\ caller = NothingHeld
    /\ Constructed(FullCredentials)

-----------------------------------------------------------------------------
(* The steps of generation on their own: the target plan of either mode on  *)
(* the hourly frame, the SOC trajectory from a supplied SOC, and the AS     *)
(* overlay on a planned frame.                                              *)

StepProfiles ==
    { BESSParameters(10, 128, 0, 20, 1),
      BESSParameters(100, 112, 0, 200, 50) }

StepStarts == {0, 15}

StepDays == {0, 1}

StepInit ==
    /\ bess \in StepProfiles
    /\ \E start_date \in StepStarts, days \in StepDays :
          /\ cop = InitialCop(bess, start_date, days)
          /\ args = [op |-> "date_range", start_date |-> start_date, days |-> days]
    /\ report = NoReport
    /\ op = "frame"
    /\ cop_data = None
    /\ calls = <<>>
    /\ caller = NothingHeld
    /\ Constructed(FullCredentials)

GenerateDefaultPlan ==
    /\ op = "frame"
    /\ cop' = _generate_default_plan(bess, cop)
    /\ args' = [op |-> "_generate_default_plan"]
    /\ op' = "planned"
    /\ UNCHANGED <<bess, report, cop_data, calls, caller, validator, heap,
                   reports, submitter, sent, results>>

\* the forecasts cover the day from hour 0, whatever hour the frame starts at
OptimizeForPrices ==
    /\ op = "frame"
    /\ \E price_forecast \in PriceForecasts(0, 1) :
          cop' = _optimize_for_prices(bess, cop, price_forecast)
    /\ args' = [op |-> "_optimize_for_prices"]
    /\ op' = "planned"
    /\ UNCHANGED <<bess, report, cop_data, calls, caller, validator, heap,
                   reports, submitter, sent, results>>

\* initial SOC values a caller may supply
InitialSocs == {None, Some(MW(0)), Some(MW(7))}

CalculateSocTrajectory ==
    /\ op = "planned"
    /\ \E initial_soc \in InitialSocs :
          /\ cop' = _calculate_soc_trajectory(bess, cop, initial_soc)
          /\ args' = [op |-> "_calculate_soc_trajectory", initial_soc |-> initial_soc]
    /\ op' = "trajectory"
    /\ UNCHANGED <<bess, report, cop_data, calls, caller, validator, heap,
                   reports, submitter, sent, results>>

\* MW of one service in an hour's commitment
OverlayMW == {MW(0), MW(5), MW(50)}

\* commitments for the second hour of the plan in every combination of the
\* three services, and the frames of several hours
Overlays(df) ==
    LET h == IF NRows(df) = 0 THEN 0 ELSE df.index[1]
    IN { AsFrame(AllAs, (h + 1) :> AsRow(reg_mw, rrs_mw, ecrs_mw)) :
            reg_mw \in OverlayMW, rrs_mw \in OverlayMW, ecrs_mw \in OverlayMW }
       \cup AsCommitments(h)

ApplyAsCommitments ==
    /\ op = "planned"
    /\ \E as_commitments \in Overlays(cop) :
          /\ cop' = _apply_as_commitments(cop, as_commitments)
          /\ args' = [op |-> "_apply_as_commitments", cop |-> cop,
                      as_commitments |-> as_commitments]
    /\ op' = "overlaid"
    /\ UNCHANGED <<bess, report, cop_data, calls, caller, validator, heap,
                   reports, submitter, sent, results>>

-----------------------------------------------------------------------------
(* One generator called again and again by a caller who holds a price       *)
(* forecast and AS commitments and passes them or leaves them out.          *)

MaxCalls == 3

SessionProfiles ==
    { BESSParameters(10, 128, 0, 20, 1),
      BESSParameters(100, 112, 0, 200, 50) }

\* a forecast of one high price followed by low ones
HighThenLow == [k \in 1..PatternLen |-> IF k = 1 THEN 100 ELSE 10]

SessionInit ==
    /\ bess \in SessionProfiles
    /\ cop = EmptyFrame
    /\ args = [op |-> "none"]
    /\ report = NoReport
    /\ op = "session"
    /\ cop_data = None
    /\ calls = <<>>
    /\ caller = [price_forecast |-> PriceForecast(HighThenLow, 0, 1),
                 as_commitments |-> RegulationAtSecondHour(0)]
    /\ Constructed(FullCredentials)

GenerateAgain ==
    /\ op \in {"session", "called"}
    /\ Len(calls) < MaxCalls
    /\ \E start_date \in StepStarts :
          \E price_forecast \in {None, caller.price_forecast} :
              \E as_commitments \in {None, caller.as_commitments} :
                  Call(start_date, 1, price_forecast, as_commitments)
    /\ op' = "called"

-----------------------------------------------------------------------------
(* The daily process: run_daily_cop generates a seven day plan from the     *)
(* coming midnight, validates it and, if asked to, submits it.              *)

\* the payload built from the plan for the ERCOT endpoint
_format_for_ercot(credentials, df) ==
    LET Get(r, column, default) ==
            IF column \in df.columns THEN r[column] ELSE default
        Entry(r) ==
            [hour_ending |-> r.hour_ending,
             resource_name |-> r.resource_name,
             resource_status |-> r.status,
             hsl |-> r.hsl, lsl |-> r.lsl,
             hel |-> Get(r, "hel", r.hsl),
             lel |-> Get(r, "lel", r.lsl),
             normal_ramp_rate_up |-> r.normal_ramp_up,
             normal_ramp_rate_down |-> r.normal_ramp_down,
             emergency_ramp_rate_up |->
                 Get(r, "emergency_ramp_up", Exact(r.normal_ramp_up * 3, 2)),
             emergency_ramp_rate_down |->
                 Get(r, "emergency_ramp_down", Exact(r.normal_ramp_down * 3, 2)),
             minimum_soc |-> r.soc_min,
             maximum_soc |-> r.soc_max,
             hour_beginning_planned_soc |-> r.soc_begin]
    IN [qse_name |-> IF "qse_name" \in DOMAIN credentials
                     THEN credentials.qse_name ELSE "TEST_QSE",
        cop_data |-> MapRows(Entry, df.rows)]

\* what the endpoint may answer: 200 with a JSON object as its body, 200
\* with a body that is no JSON object, another status, or nothing in time
Responses == {"200", "200 no object", "500", "timeout"}

\* the payload holds a NaN, which requests refuses to encode as JSON
HasNaN(payload) ==
    \E k \in 1..Len(payload.cop_data) :
        LET entry == payload.cop_data[k]
        IN \E f \in {"hsl", "lsl", "hel", "lel", "normal_ramp_rate_up",
                     "normal_ramp_rate_down", "emergency_ramp_rate_up",
                     "emergency_ramp_rate_down", "minimum_soc", "maximum_soc",
                     "hour_beginning_planned_soc"} : IsNaN(entry[f])

\* _send_to_ercot sends the payload: without an api key or an endpoint the
\* KeyError, and for a payload with a NaN the error of requests, is caught
\* before anything is posted
Posts(credentials, payload) ==
    /\ "api_key" \in DOMAIN credentials /\ "endpoint" \in DOMAIN credentials
    /\ ~HasNaN(payload)

\* what _send_to_ercot returns once requests.post has answered or timed out:
\* SUCCESS for a 200 whose body is a JSON object; the exception of
\* response.json() or of .get on another body is caught like a timeout
Answered(response) == [status |-> IF response = "200" THEN "SUCCESS" ELSE "ERROR"]

\* the post to the endpoint: the payloads that went out and the result
_send_to_ercot(credentials, payload, response) ==
    IF ~Posts(credentials, payload)
    THEN [posted |-> <<>>, result |-> [status |-> "ERROR"]]
    ELSE [posted |-> <<payload>>, result |-> Answered(response)]

\* the submitter once submit_cop has logged the result for the plan
Logged(sub, df, result) ==
    LET entry == [result |-> result,
                  cop_summary |-> [hours |-> NRows(df),
                                   start |-> df.rows[1].hour_ending,
                                   end |-> df.rows[NRows(df)].hour_ending]]
    IN [sub EXCEPT !.submission_history = Append(@, entry)]

\* submit_cop: the submitter afterwards, the payloads posted and the result
submit_cop(sub, df, test_mode, response) ==
    LET cop_payload == _format_for_ercot(sub.credentials, df)
        outcome == IF test_mode
                   THEN [posted |-> <<>>, result |-> [status |-> "TEST_SUCCESS"]]
                   ELSE _send_to_ercot(sub.credentials, cop_payload, response)
    IN [submitter |-> Logged(sub, df, outcome.result),
        posted |-> outcome.posted,
        result |-> outcome.result]

\* the decision as it would be did the process submit whatever was generated
SubmitWhenAsked(valid, auto_submit) == auto_submit

\* the plan goes to the submitter only if it is valid and auto_submit is set
ShouldSubmit(valid, auto_submit) == valid /\ auto_submit

NotSubmitted(message) == [status |-> "NOT_SUBMITTED", message |-> message]

DailyProfiles ==
    { BESSParameters(5, 128, 0, 500, 1),
      BESSParameters(100, 112, 0, 200, 50) }

DailyInit ==
    /\ bess \in DailyProfiles
    /\ cop = EmptyFrame
    /\ args = [op |-> "none"]
    /\ report = NoReport
    /\ op = "daily"
    /\ cop_data = None
    /\ calls = <<>>
    /\ caller = [price_forecast |-> PriceForecast(HighThenLow, 0, DefaultDays),
                 as_commitments |-> RegulationAtSecondHour(0)]
    /\ \E credentials \in Credentials : Constructed(credentials)

\* the results dict run_daily_cop compiles
DailyResults(df, validation_results, submission_result) ==
    [cop_summary |-> [hours |-> NRows(df),
                      start_date |-> df.rows[1].hour_ending,
                      end_date |-> df.rows[NRows(df)].hour_ending],
     validation |-> validation_results,
     submission |-> submission_result,
     cop_data |-> IF validation_results.valid THEN Some(df.rows) ELSE None]

\* run_daily_cop up to its return, or up to requests.post where the call
\* waits for the endpoint (op "posting"): the plan is generated and
\* validated and the payload is out, nothing is logged or returned yet
run_daily_cop(price_forecast, as_commitments, auto_submit) ==
    LET start_date == 0
        inputs == [op |-> "generate_cop", start_date |-> start_date,
                   days |-> 7, price_forecast |-> price_forecast,
                   as_commitments |-> as_commitments]
    IN /\ cop' = generate_cop(bess, start_date, 7, price_forecast, as_commitments)
       /\ cop_data' = cop'
       /\ calls' = Append(calls, [inputs |-> inputs, plan |-> cop'])
       /\ ValidateCall(cop')
       /\ IF /\ ShouldSubmit(report'.valid, auto_submit)
             /\ Posts(submitter.credentials,
                      _format_for_ercot(submitter.credentials, cop'))
          THEN /\ sent' = Append(sent, _format_for_ercot(submitter.credentials, cop'))
               /\ op' = "posting"
               /\ UNCHANGED <<submitter, results>>
          ELSE LET submission ==
                       IF ShouldSubmit(report'.valid, auto_submit)
                       THEN submit_cop(submitter, cop', FALSE, "none")
                       ELSE [submitter |-> submitter, posted |-> <<>>,
                             result |-> IF report'.valid
                                        THEN NotSubmitted("Auto-submit disabled")
                                        ELSE NotSubmitted("Validation failed")]
               IN /\ submitter' = submission.submitter
                  /\ sent' = sent \o submission.posted
                  /\ results' = DailyResults(cop', report', submission.result)
                  /\ op' = "ran"
       /\ args' = [op |-> "run_daily_cop", price_forecast |-> price_forecast,
                   as_commitments |-> as_commitments,
                   auto_submit |-> auto_submit]

RunDailyCop ==
    /\ op = "daily"
    /\ \E price_forecast \in {None, caller.price_forecast},
          as_commitments \in {None, caller.as_commitments},
          auto_submit \in BOOLEAN :
              run_daily_cop(price_forecast, as_commitments, auto_submit)
    /\ UNCHANGED <<bess, caller>>

MaxSubmissions == 2

\* the plan a caller hands to submit_cop: the one the process generated,
\* or before any run one generated for the profile, as it is or with the
\* SOC of its first hour null
PlansAtHand ==
    IF NRows(cop) > 0 THEN {cop}
    ELSE LET df == generate_cop(bess, 0, DefaultDays, None, None)
         IN {df, NullFirst(df, "soc_begin")}

\* submit_cop called by itself, up to its return or up to requests.post
\* (op "sending"); the plan is not validated
SubmitCop ==
    /\ op \in {"daily", "ran", "submitted"}
    /\ Len(submitter.submission_history) < MaxSubmissions
    /\ \E df \in PlansAtHand, test_mode \in BOOLEAN :
          /\ cop' = df
          /\ args' = [op |-> "submit_cop", test_mode |-> test_mode]
          /\ IF /\ ~test_mode
                /\ Posts(submitter.credentials,
                         _format_for_ercot(submitter.credentials, df))
             THEN /\ sent' = Append(sent, _format_for_ercot(submitter.credentials, df))
                  /\ op' = "sending"
                  /\ UNCHANGED submitter
             ELSE LET submission == submit_cop(submitter, df, test_mode, "none")
                  IN /\ submitter' = submission.submitter
                     /\ sent' = sent \o submission.posted
                     /\ op' = "submitted"
    /\ UNCHANGED <<bess, report, cop_data, calls, caller, validator, heap,
                   reports, results>>

\* requests.post answers or times out: _send_to_ercot returns, submit_cop
\* logs the result and returns, and run_daily_cop, if it is the caller,
\* compiles its results
PostReturns ==
    /\ op \in {"posting", "sending"}
    /\ \E response \in Responses :
          /\ submitter' = Logged(submitter, cop, Answered(response))
          /\ IF op = "posting"
             THEN /\ results' = DailyResults(cop, report, Answered(response))
                  /\ op' = "ran"
             ELSE /\ results' = results
                  /\ op' = "submitted"
    /\ UNCHANGED <<bess, cop, args, report, cop_data, calls, caller, validator,
                   heap, reports, sent>>

-----------------------------------------------------------------------------
(* One validator serving a sequence of validate calls on different plans.   *)

MaxValidations == 3

\* plans with no hours, without findings of an hour, with errors, and one
\* lacking a column validate reads
ValidatorPlans(b) ==
    { AuditFrame(<<>>, OwnLimits(b)),
      AuditFrame(<< <<MW(15), Steady>> >>, OwnLimits(b)),
      AuditFrame(<< <<MW(21), Steady>>, <<MW(5), <<"ONRR", MW(0)>> >> >>,
                 <<MW(8), MW(12), b.capacity_mw>>),
      DropColumn(AuditFrame(<< <<MW(21), Steady>> >>, OwnLimits(b)), "soc_min") }

ValidatorInit ==
    /\ bess \in AuditProfiles
    /\ cop = EmptyFrame
    /\ args = [op |-> "none"]
    /\ report = NoReport
    /\ op = "validator"
    /\ cop_data = None
    /\ calls = <<>>
    /\ caller = NothingHeld
    /\ Constructed(FullCredentials)

\* the caller hands the validator another plan
ValidateAgain ==
    /\ op \in {"validator", "revalidated"}
    /\ Len(heap) < 2 * (MaxValidations + 1)
    /\ \E plan \in ValidatorPlans(bess) :
          /\ cop' = plan
          /\ ValidateCall(plan)
    /\ args' = [op |-> "validate"]
    /\ op' = "revalidated"
    /\ UNCHANGED <<bess, cop_data, calls, caller, submitter, sent, results>>

-----------------------------------------------------------------------------
(* The specification: a generator awaiting its call, an SOC sequence        *)
(* awaiting repair, a plan awaiting validation, an hourly frame awaiting    *)
(* its plan, a generator in a session of calls, the daily process awaiting  *)
(* its run, or a validator in a session of calls.                           *)

Init ==
    \/ GeneratorInit \/ RepairInit \/ AuditInit \/ StepInit \/ SessionInit
    \/ DailyInit \/ ValidatorInit

Next ==
    \/ GenerateDefault \/ GeneratePriced \/ EnsureSocFeasibility \/ Validate
    \/ GenerateDefaultPlan \/ OptimizeForPrices \/ CalculateSocTrajectory
    \/ ApplyAsCommitments \/ GenerateAgain \/ RunDailyCop \/ SubmitCop
    \/ PostReturns \/ ValidateAgain

Spec == Init /\ [][Next]_vars

-----------------------------------------------------------------------------
(* Properties of generation and feasibility enforcement. *)

SocBegins(df) == LET Soc(r) == r.soc_begin IN MapRows(Soc, df.rows)

Targets(df) == LET Target(r) == r.target_mw IN MapRows(Target, df.rows)

\* cop is the plan generate_cop returned (validated since or not)
Generated == args.op = "generate_cop"

\* cop is what _ensure_soc_feasibility returned for the sequence args.cop
Ensured == op = "ensured"

\* C1: the plan generated for 7 days (168 hours) without price forecast and
\* without AS commitments, for a profile with capacity_mw > 0 and
\* min_soc < max_soc, is reported valid by validate with the same profile.
C1_RoundTripValid ==
    (/\ op = "validated"
     /\ Generated
     /\ ValidProfile(bess)
     /\ args.days = DefaultDays
     /\ ~args.price_forecast.given
     /\ ~args.as_commitments.given)
    => (report.raised = "no" /\ report.valid)

\* C2: enforcing feasibility on the output of feasibility enforcement
\* changes no soc_begin, whatever SOC sequence the output came from.
C2_Idempotent ==
    Ensured => SocBegins(_ensure_soc_feasibility(bess, cop)) = SocBegins(cop)

\* a repair of a sequence that starts outside the SOC limits and is changed
\* by the repair
C2_Witness ==
    /\ Ensured
    /\ NRows(cop) = MaxLen
    /\ args.cop.rows[1].soc_begin > bess.max_soc
    /\ \E i \in 2..NRows(cop) : cop.rows[i].soc_begin # args.cop.rows[i].soc_begin

InRange(b, soc) == b.min_soc <= soc /\ soc <= b.max_soc

\* C3: with min_soc < max_soc, every soc_begin of a generated plan (any
\* price forecast, any AS commitments) and of the output of feasibility
\* enforcement (any input sequence) lies within [min_soc, max_soc].
C3_SocWithinLimits ==
    ((Generated \/ Ensured) /\ bess.min_soc < bess.max_soc)
    => \A i \in 1..NRows(cop) : InRange(bess, cop.rows[i].soc_begin)

\* a priced plan with AS commitments that the clip has brought up to
\* min_soc in its first hour and that reaches max_soc later
C3_Witness ==
    /\ op = "generated"
    /\ args.price_forecast.given /\ args.as_commitments.given
    /\ bess.min_soc < bess.max_soc
    /\ InitialSoc(bess) < bess.min_soc
    /\ cop.rows[1].soc_begin = bess.min_soc
    /\ \E i \in 1..NRows(cop) : cop.rows[i].soc_begin = bess.max_soc

\* the limits of one hour's SOC change from a state of charge soc
MaxCharge(b, soc) == PyMin(TimesEff(Abs(lsl(b)), b), Sub(b.max_soc, soc))

MaxDischarge(b, soc) == PyMin(hsl(b), Sub(soc, b.min_soc))

RECURSIVE StepwiseSoc(_, _, _)
\* soc_begin[i] once the pairs (1,2) .. (i-1,i) have been visited in order,
\* socs being the sequence before any visit
StepwiseSoc(b, socs, i) ==
    IF i = 1 THEN socs[1]
    ELSE LET current == StepwiseSoc(b, socs, i - 1)
             delta == socs[i] - current
         IN IF delta > MaxCharge(b, current) THEN current + MaxCharge(b, current)
            ELSE IF delta < 0 - MaxDischarge(b, current)
            THEN current - MaxDischarge(b, current)
            ELSE socs[i]

\* target_mw[i] once the pair (i, i+1) has been visited
StepwiseTarget(b, socs, targets, i) ==
    IF i = Len(socs) THEN targets[i]
    ELSE LET current == StepwiseSoc(b, socs, i)
             delta == socs[i + 1] - current
         IN IF delta > MaxCharge(b, current) THEN 0 - b.capacity_mw
            ELSE IF delta < 0 - MaxDischarge(b, current) THEN b.capacity_mw
            ELSE targets[i]

Bounded(b, soc) ==
    IF soc < b.min_soc THEN b.min_soc ELSE IF soc > b.max_soc THEN b.max_soc ELSE soc

BoundaryProfile == BESSParameters(10, 128, 0, 20, 1)

BoundaryInput == <<MW(10), MW(19), MW(28)>>

\* C4: feasibility enforcement visits the pairs (i, i+1) in increasing i; a
\* pair whose delta exceeds maxCharge gets soc_begin[i+1] = soc_begin[i] +
\* maxCharge and target_mw[i] = lsl, one whose delta is below -maxDischarge
\* gets soc_begin[i+1] = soc_begin[i] - maxDischarge and target_mw[i] = hsl,
\* any other pair is unchanged (every soc_begin is clipped at the end).  For
\* capacity 10, efficiency 1, limits 0 and 20, SOC <<10, 19, 28>> becomes
\* <<10, 19, 20>> with the second hour's target forced to -10.
C4_PairwiseRepair ==
    Ensured =>
        /\ \A i \in 1..NRows(cop) :
              /\ cop.rows[i].soc_begin
                   = Bounded(bess, StepwiseSoc(bess, SocBegins(args.cop), i))
              /\ cop.rows[i].target_mw
                   = StepwiseTarget(bess, SocBegins(args.cop), Targets(args.cop), i)
        /\ (bess = BoundaryProfile /\ SocBegins(args.cop) = BoundaryInput)
              => /\ SocBegins(cop) = <<MW(10), MW(19), MW(20)>>
                 /\ Targets(cop) = <<InputTarget, MW(0 - 10), InputTarget>>

\* the boundary repair example has been run
C4_Witness ==
    /\ Ensured
    /\ bess = BoundaryProfile
    /\ SocBegins(args.cop) = BoundaryInput
    /\ SocBegins(cop) # SocBegins(args.cop)

\* C5: generate_cop fails and returns no plan for a profile with
\* capacity_mw <= 0 or min_soc >= max_soc.
C5_InvalidProfileRejected == Generated => ValidProfile(bess)

-----------------------------------------------------------------------------
(* Properties of validation. *)

\* validate has returned a report for cop
Reported == op = "validated" /\ report.raised = "no"

Types(findings) == {findings[k].type : k \in 1..Len(findings)}

\* the hours (as the families number them) that findings of a type name
HoursOf(findings, type) ==
    {findings[k].hour : k \in {j \in 1..Len(findings) : findings[j].type = type}}

WarningTypes ==
    {"SOC_MIN_INCONSISTENT", "SOC_MAX_INCONSISTENT", "RAMP_RATE_EXCEEDED",
     "INSUFFICIENT_SOC_FOR_RRS", "INSUFFICIENT_SOC_FOR_ECRS", "INSUFFICIENT_HORIZON"}

\* C6: in every report validate returns, valid is true exactly when errors
\* is empty; warnings (INSUFFICIENT_HORIZON, which a plan of fewer than 168
\* hours gets, RAMP_RATE_EXCEEDED and the others) are never among the errors.
C6_ValidIffNoErrors ==
    Reported =>
        /\ report.valid <=> Len(report.errors) = 0
        /\ Types(report.errors) \cap WarningTypes = {}
        /\ "INSUFFICIENT_HORIZON" \in Types(report.warnings)
              <=> NRows(cop) < RequiredHours

\* a report that is valid although it carries both warnings
C6_Witness ==
    /\ Reported
    /\ report.valid
    /\ {"INSUFFICIENT_HORIZON", "RAMP_RATE_EXCEEDED"} \subseteq Types(report.warnings)

\* C7: for a profile with min_soc < max_soc, a plan reported valid has
\* min_soc <= soc_begin <= max_soc in every hour, the last included; a
\* report on a plan with an hour below min_soc carries SOC_BELOW_MIN for
\* that hour, one with an hour above max_soc SOC_ABOVE_MAX, and is not valid.
C7_ValidWithinLimits ==
    (Reported /\ bess.min_soc < bess.max_soc) =>
        /\ report.valid =>
              \A i \in 1..NRows(cop) : InRange(bess, cop.rows[i].soc_begin)
        /\ \A i \in 1..NRows(cop) :
              /\ Lt(cop.rows[i].soc_begin, bess.min_soc)
                    => /\ cop.index[i] \in HoursOf(report.errors, "SOC_BELOW_MIN")
                       /\ ~report.valid
              /\ Gt(cop.rows[i].soc_begin, bess.max_soc)
                    => /\ cop.index[i] \in HoursOf(report.errors, "SOC_ABOVE_MAX")
                       /\ ~report.valid

\* a report whose only errors are about the last hour, which is above max_soc
C7_Witness ==
    /\ Reported
    /\ NRows(cop) = MaxHours
    /\ cop.rows[NRows(cop)].soc_begin > bess.max_soc
    /\ HoursOf(report.errors, "SOC_ABOVE_MAX") = {cop.index[NRows(cop)]}
    /\ Types(report.errors) = {"SOC_ABOVE_MAX"}

\* the pairs of adjacent hours of cop, by the row number of the first
Pairs == IF NRows(cop) < 2 THEN {} ELSE 1..(NRows(cop) - 1)

\* the SOC values and limits of the pair are all numbers
Numeric(i) ==
    /\ ~IsNaN(cop.rows[i].soc_begin) /\ ~IsNaN(cop.rows[i + 1].soc_begin)
    /\ ~IsNaN(cop.rows[i].soc_min) /\ ~IsNaN(cop.rows[i].soc_max)

Delta(i) == Sub(cop.rows[i + 1].soc_begin, cop.rows[i].soc_begin)

\* the limits of hour i's SOC change by the values row i of the plan carries
RowMaxCharge(i) ==
    LET row == cop.rows[i]
    IN PyMin(TimesEff(Abs(row.lsl), bess), Sub(row.soc_max, row.soc_begin))

RowMaxDischarge(i) ==
    LET row == cop.rows[i]
    IN PyMin(row.hsl, Sub(row.soc_begin, row.soc_min))

\* a change of d exceeds the limit by more than the tolerance of 0.01 MWh;
\* no comparison with a null holds
Beyond(d, limit) ==
    ~IsNaN(d) /\ ~IsNaN(limit) /\ 100 * d > 100 * limit + SocTolerance

C10_AllFamiliesReported ==
    op = "validated" =>
        /\ report.raised = "no"
        /\ report.errors =
              _validate_soc_feasibility(bess, cop).errors
              \o _validate_soc_bounds(bess, cop).errors
              \o _validate_data_completeness(cop).errors
        /\ report.warnings =
              _validate_soc_bounds(bess, cop).warnings
              \o _validate_ramp_rates(cop).warnings
              \o _validate_as_requirements(cop).warnings
              \o _validate_timeline_requirements(cop).warnings

-----------------------------------------------------------------------------
(* Properties of the single check families and of the generation steps. *)

\* required_fields as a set
RequiredFields == {required_fields[k] : k \in 1..Len(required_fields)}

\* the required fields the plan lacks
AbsentFields(df) == RequiredFields \ df.columns

\* the required fields of the plan that are null in some hour
NullFields(df) ==
    {f \in RequiredFields \cap df.columns :
        \E i \in 1..NRows(df) : IsNull(f, df.rows[i][f])}

\* C11: when a required field (the nine fields named, and resource_name,
\* which the program requires as well) is absent from the plan or null in
\* some hour,
\* validate returns a report, the report is not valid, and it holds a
\* MISSING_FIELDS error (field absent) or a NULL_VALUES error (field null).
C11_AlwaysReports ==
    (op = "validated" /\ (AbsentFields(cop) # {} \/ NullFields(cop) # {})) =>
        /\ report.raised = "no"
        /\ ~report.valid
        /\ AbsentFields(cop) # {} => "MISSING_FIELDS" \in Types(report.errors)
        /\ NullFields(cop) # {} => "NULL_VALUES" \in Types(report.errors)

\* the pairs of adjacent hours of cop, by the row number of the first
AdjacentHours == IF NRows(cop) < 2 THEN {} ELSE 1..(NRows(cop) - 1)

SameStatus(i) == cop.rows[i].status = cop.rows[i + 1].status

\* |target_mw[i+1] - target_mw[i]|
TargetChange(i) ==
    LET d == cop.rows[i + 1].target_mw - cop.rows[i].target_mw
    IN IF d < 0 THEN 0 - d ELSE d

\* max(normal_ramp_up, normal_ramp_down) * 60, the MW one hour can ramp
HourlyRamp(i) ==
    LET up == cop.rows[i].normal_ramp_up
        down == cop.rows[i].normal_ramp_down
    IN (IF up > down THEN up ELSE down) * 60

\* C12: in every report on a plan with targets, RAMP_RATE_EXCEEDED is a
\* warning, never an error, and hour i has it exactly when hours i and i+1
\* have the same status and |target_mw[i+1] - target_mw[i]| is more than
\* max(normal_ramp_up, normal_ramp_down) * 60 * 1.05; hours of different
\* status never have it.
C12_RampWarning ==
    (Reported /\ "target_mw" \in cop.columns) =>
        /\ "RAMP_RATE_EXCEEDED" \notin Types(report.errors)
        /\ \A i \in AdjacentHours :
              (i - 1) \in HoursOf(report.warnings, "RAMP_RATE_EXCEEDED")
                 <=> /\ SameStatus(i)
                     /\ TargetChange(i) * 100 > HourlyRamp(i) * 105

\* targets 0 then 100 MW at 1 MW/min in two hours of the same status: the
\* warning is reported and the plan is valid
C12_Witness ==
    /\ Reported
    /\ NRows(cop) = 2
    /\ {"status", "target_mw", "normal_ramp_up"} \subseteq cop.columns
    /\ SameStatus(1)
    /\ cop.rows[1].target_mw = MW(0) /\ cop.rows[2].target_mw = MW(100)
    /\ cop.rows[1].normal_ramp_up = MW(1)
    /\ HoursOf(report.warnings, "RAMP_RATE_EXCEEDED") = {0}
    /\ report.valid

\* C13: in every report, an hour has INSUFFICIENT_SOC_FOR_RRS, a warning,
\* exactly when its status is ONRR and soc_begin < hsl, and
\* INSUFFICIENT_SOC_FOR_ECRS exactly when its status is ONECRS and
\* soc_begin < 2 * hsl; hours of any other status have neither.
C13_ReserveWarnings ==
    Reported =>
        /\ {"INSUFFICIENT_SOC_FOR_RRS", "INSUFFICIENT_SOC_FOR_ECRS"}
              \cap Types(report.errors) = {}
        /\ \A i \in 1..NRows(cop) :
              ~IsNaN(cop.rows[i].soc_begin) =>
                 /\ cop.index[i] \in HoursOf(report.warnings, "INSUFFICIENT_SOC_FOR_RRS")
                       <=> /\ cop.rows[i].status = "ONRR"
                           /\ cop.rows[i].soc_begin < cop.rows[i].hsl
                 /\ cop.index[i] \in HoursOf(report.warnings, "INSUFFICIENT_SOC_FOR_ECRS")
                       <=> /\ cop.rows[i].status = "ONECRS"
                           /\ cop.rows[i].soc_begin < 2 * cop.rows[i].hsl

\* an ONRR hour with hsl 10 and soc_begin 5, reported, beside an ONECRS hour
\* with soc_begin 15 < 2 * 10, reported too
C13_Witness ==
    /\ Reported
    /\ NRows(cop) = 2
    /\ cop.rows[1].status = "ONRR" /\ cop.rows[1].hsl = MW(10)
    /\ cop.rows[1].soc_begin = MW(5)
    /\ cop.rows[2].status = "ONECRS" /\ cop.rows[2].soc_begin = MW(15)
    /\ HoursOf(report.warnings, "INSUFFICIENT_SOC_FOR_RRS") = {cop.index[1]}
    /\ HoursOf(report.warnings, "INSUFFICIENT_SOC_FOR_ECRS") = {cop.index[2]}

\* cop is what _apply_as_commitments returned for the plan args.cop and the
\* commitments args.as_commitments
Overlaid == op = "overlaid"

\* the rows of the plan whose hour the commitments have a row for
CommittedRows ==
    {i \in 1..NRows(cop) : cop.index[i] \in DOMAIN args.as_commitments.rows}

Committed(i, service) == AsValue(args.as_commitments, cop.index[i], service)

Positive(mw) == ~IsNaN(mw) /\ mw > 0

Larger(x, y) == IF y > x THEN y ELSE x

\* C14: of the commitments of one hour exactly one is applied, by the
\* priority regulation > RRS > ECRS: regulation > 0 gives status ONREG and
\* leaves soc_min alone whatever rrs and ecrs are; otherwise rrs > 0 gives
\* ONRR with the RRS reserve only; ECRS is applied only when neither
\* regulation nor rrs is positive; with none positive the hour is unchanged.
C14_PriorityOverlay ==
    Overlaid =>
        \A i \in CommittedRows :
            LET before == args.cop.rows[i]
                after == cop.rows[i]
                reg_mw == Committed(i, "regulation")
                rrs_mw == Committed(i, "rrs")
                ecrs_mw == Committed(i, "ecrs")
            IN /\ Positive(reg_mw) =>
                     after.status = "ONREG" /\ after.soc_min = before.soc_min
               /\ (~Positive(reg_mw) /\ Positive(rrs_mw)) =>
                     /\ after.status = "ONRR"
                     /\ after.soc_min = Larger(before.soc_min, rrs_mw)
               /\ (~Positive(reg_mw) /\ ~Positive(rrs_mw) /\ Positive(ecrs_mw)) =>
                     /\ after.status = "ONECRS"
                     /\ after.soc_min = Larger(before.soc_min, 2 * ecrs_mw)
               /\ (~Positive(reg_mw) /\ ~Positive(rrs_mw) /\ ~Positive(ecrs_mw)) =>
                     after = before

\* an hour committed to all three services, each reserve above the hour's
\* soc_min: it is ONREG and its soc_min is as before
C14_Witness ==
    /\ Overlaid
    /\ \E i \in CommittedRows :
          /\ Positive(Committed(i, "regulation"))
          /\ Committed(i, "rrs") > args.cop.rows[i].soc_min
          /\ Committed(i, "ecrs") > args.cop.rows[i].soc_min
          /\ cop.rows[i].status = "ONREG"
          /\ cop.rows[i].soc_min = args.cop.rows[i].soc_min

\* C15: the overlay only ever raises soc_min: every hour's soc_min after it
\* is at least the soc_min before, an hour made ONRR has
\* max(old soc_min, rrs), an hour made ONECRS max(old soc_min, 2 * ecrs),
\* and the target_mw of those hours is as before.
C15_SocMinOnlyRaised ==
    Overlaid =>
        /\ NRows(cop) = NRows(args.cop)
        /\ \A i \in 1..NRows(cop) :
              LET before == args.cop.rows[i]
                  after == cop.rows[i]
              IN /\ after.soc_min >= before.soc_min
                 /\ after.status = "ONRR" =>
                       /\ after.soc_min = Larger(before.soc_min, Committed(i, "rrs"))
                       /\ after.target_mw = before.target_mw
                 /\ after.status = "ONECRS" =>
                       /\ after.soc_min = Larger(before.soc_min, 2 * Committed(i, "ecrs"))
                       /\ after.target_mw = before.target_mw

\* an hour made ONRR whose commitment is below the soc_min it had, which it
\* keeps, in a plan with an hour made ONECRS whose soc_min is raised
C15_Witness ==
    /\ Overlaid
    /\ \E i \in CommittedRows :
          /\ cop.rows[i].status = "ONRR"
          /\ Committed(i, "rrs") < args.cop.rows[i].soc_min
          /\ cop.rows[i].soc_min = args.cop.rows[i].soc_min
    /\ \E i \in CommittedRows :
          /\ cop.rows[i].status = "ONECRS"
          /\ cop.rows[i].soc_min > args.cop.rows[i].soc_min

\* cop is the target plan of the default mode, before the overlay and repair
DefaultPlanned == op = "planned" /\ args.op = "_generate_default_plan"

\* cop is the target plan of the price-optimized mode
PricePlanned == op = "planned" /\ args.op = "_optimize_for_prices"

HourOfDay(i) == cop.index[i] % 24

\* C16: without a price forecast every hour is planned by its hour of day h:
\* [0,6) charge at 0.8 * lsl, [6,10) hold at 0, [14,20) discharge at
\* 0.9 * hsl, [10,14) and [20,24) hold at 0, with status ON; the modes are
\* those of the plan generate_cop returns when it is given no forecast.
C16_DefaultPattern ==
    /\ DefaultPlanned =>
          \A i \in 1..NRows(cop) :
              LET h == HourOfDay(i)
                  row == cop.rows[i]
              IN /\ row.status = "ON"
                 /\ h \in 0..5 =>
                       row.mode = "charge" /\ row.target_mw * 10 = 8 * lsl(bess)
                 /\ h \in 6..9 => row.mode = "hold" /\ row.target_mw = 0
                 /\ h \in 14..19 =>
                       row.mode = "discharge" /\ row.target_mw * 10 = 9 * hsl(bess)
                 /\ h \in (10..13) \cup (20..23) =>
                       row.mode = "hold" /\ row.target_mw = 0
    /\ (Generated /\ ~args.price_forecast.given) =>
          \A i \in 1..NRows(cop) :
              cop.rows[i].mode =
                 IF HourOfDay(i) \in 0..5 THEN "charge"
                 ELSE IF HourOfDay(i) \in 14..19 THEN "discharge" ELSE "hold"

\* the default plan of a day that starts at 15:00, so it has hours of all
\* five ranges and passes midnight
C16_Witness ==
    /\ DefaultPlanned
    /\ NRows(cop) = 24
    /\ cop.index[1] = 15
    /\ cop.rows[1].target_mw = MW(9) /\ cop.rows[10].target_mw = 0 - MW(8)
    /\ cop.rows[6].target_mw = 0 /\ cop.rows[16].target_mw = 0

\* C17: in the price-optimized plan every hour's mode and target follow
\* from its price alone: above 80 discharge at hsl, below 25 charge at lsl,
\* above 50 and up to 80 discharge at 0.5 * hsl, from 25 to 50 hold at 0
\* (so 80 gives the half discharge, 25 and 50 give hold); a forecast without
\* a price column prices every hour at 50.
C17_PriceThresholds ==
    PricePlanned =>
        \A i \in 1..NRows(cop) :
            LET row == cop.rows[i]
                price == IF "price" \in cop.columns THEN row.price ELSE 50
            IN ~IsNaN(price) =>
                  /\ price > 80 => row.mode = "discharge" /\ row.target_mw = hsl(bess)
                  /\ price < 25 => row.mode = "charge" /\ row.target_mw = lsl(bess)
                  /\ (50 < price /\ price <= 80) =>
                        row.mode = "discharge" /\ row.target_mw * 2 = hsl(bess)
                  /\ (25 <= price /\ price <= 50) =>
                        row.mode = "hold" /\ row.target_mw = 0

\* a plan with hours priced at the boundaries 80 and 25: half discharge and hold
C17_Witness ==
    /\ PricePlanned
    /\ "price" \in cop.columns
    /\ \E i, j \in 1..NRows(cop) :
          /\ cop.rows[i].price = 80 /\ cop.rows[i].target_mw * 2 = hsl(bess)
          /\ cop.rows[j].price = 25 /\ cop.rows[j].target_mw = 0
          /\ cop.rows[j].mode = "hold"

\* the SOC the trajectory of cop starts from
StartSoc ==
    IF op = "trajectory" /\ args.initial_soc.given
    THEN args.initial_soc.value ELSE bess.max_soc \div 2

\* C18: the trajectory of a target plan starts at the initial SOC (half of
\* max_soc when none is supplied) and every later soc_begin[i] is
\* soc_begin[i-1] + c, where c = -target_mw[i-1] for a positive target,
\* -target_mw[i-1] * efficiency for a negative one, and 0 otherwise.
C18_Trajectory ==
    op \in {"planned", "trajectory"} =>
        \A i \in 1..NRows(cop) :
            IF i = 1 THEN cop.rows[1].soc_begin = StartSoc
            ELSE LET t == cop.rows[i - 1].target_mw
                     c == IF t > 0 THEN 0 - t
                          ELSE IF t < 0 THEN ((0 - t) * bess.efficiency) \div Unit
                          ELSE 0
                 IN cop.rows[i].soc_begin = cop.rows[i - 1].soc_begin + c

\* a trajectory from a supplied SOC of 7 MWh with a charging hour at an
\* efficiency below 1, a discharging hour and a holding hour
C18_Witness ==
    /\ op = "trajectory"
    /\ args.initial_soc = Some(MW(7))
    /\ bess.efficiency < Unit
    /\ NRows(cop) > 2
    /\ cop.rows[1].soc_begin = MW(7)
    /\ \E i, j, k \in 1..(NRows(cop) - 1) :
          /\ cop.rows[i].target_mw < 0
          /\ cop.rows[i + 1].soc_begin > cop.rows[i].soc_begin
          /\ cop.rows[j].target_mw > 0
          /\ cop.rows[k].target_mw = 0

\* calls with equal inputs returned equal plans
Deterministic ==
    \A i, j \in 1..Len(calls) :
        calls[i].inputs = calls[j].inputs => calls[i].plan = calls[j].plan

Findings == report.errors \o report.warnings

\* the types of the findings that are about the plan as a whole
PlanWideTypes == {"MISSING_FIELDS", "NULL_VALUES", "INSUFFICIENT_HORIZON"}

\* C20 as claimed: every finding of a report, error or warning and of
\* whichever family, carries a type, the hour it is about, a message and a
\* severity.
C20_FourKeys ==
    Reported =>
        \A k \in 1..Len(Findings) :
            {"type", "hour", "message", "severity"} \subseteq DOMAIN Findings[k]

\* C20 as the program has it: the findings of the four per-hour families
\* carry type, hour, message and severity; those of the completeness and
\* horizon checks (MISSING_FIELDS, NULL_VALUES, INSUFFICIENT_HORIZON) carry
\* type, message and severity and no hour.
C20_KeysByFamily ==
    Reported =>
        \A k \in 1..Len(Findings) :
            /\ Findings[k].severity \in {"ERROR", "WARNING"}
            /\ DOMAIN Findings[k] =
                  IF Findings[k].type \in PlanWideTypes
                  THEN {"type", "message", "severity"}
                  ELSE {"type", "hour", "message", "severity"}

\* a report with findings of the per-hour families and of both plan-wide ones
C20_Witness ==
    /\ Reported
    /\ {"SOC_BELOW_MIN", "SOC_MIN_INCONSISTENT", "NULL_VALUES",
        "INSUFFICIENT_HORIZON"} \subseteq Types(Findings)

-----------------------------------------------------------------------------
(* Properties of the daily process. *)

Ran == op = "ran"

Submissions == submitter.submission_history

\* C21: in every run of run_daily_cop the plan reaches the submitter only
\* after validate has reported that same plan valid: the payload is out at
\* requests.post only for a plan reported valid; a run whose validation
\* reports an error calls no submitter, posts nothing, returns the status
\* NOT_SUBMITTED and no cop_data; a run without auto_submit submits nothing;
\* and what is submitted is the validated plan.
C21_SubmitOnlyValid ==
    /\ op = "posting" =>
           /\ report.valid /\ args.auto_submit
           /\ reports[Len(reports)].plan = cop
           /\ Submissions = <<>>
           /\ sent = <<_format_for_ercot(submitter.credentials, cop)>>
    /\ Ran =>
        /\ ~results.validation.valid =>
               /\ Submissions = <<>> /\ sent = <<>>
               /\ results.submission.status = "NOT_SUBMITTED"
               /\ results.cop_data = None
        /\ ~args.auto_submit =>
               /\ Submissions = <<>> /\ sent = <<>>
               /\ results.submission.status = "NOT_SUBMITTED"
        /\ Submissions # <<>> =>
               /\ results.validation.valid /\ args.auto_submit
               /\ reports[Len(reports)].plan = cop
               /\ heap[reports[Len(reports)].results.errors] = <<>>
               /\ Submissions[1].cop_summary.hours = NRows(cop)
               /\ results.cop_data = Some(cop.rows)
               /\ \A k \in 1..Len(sent) :
                      sent[k] = _format_for_ercot(submitter.credentials, cop)

\* a run with auto_submit whose validation reported an error
C21_Witness ==
    /\ Ran /\ args.auto_submit
    /\ results.validation.error_count > 0
    /\ results.submission.status = "NOT_SUBMITTED"

-----------------------------------------------------------------------------
(* Further properties of feasibility enforcement. *)

\* C22: what _ensure_soc_feasibility returns is feasible, final clip
\* included: for any input SOC sequence (it may start outside the limits)
\* and a profile with capacity_mw > 0 and min_soc < max_soc, every adjacent
\* pair of the output has -min(hsl, soc_begin[i] - min_soc)
\* <= soc_begin[i+1] - soc_begin[i]
\* <= min(|lsl| * efficiency, max_soc - soc_begin[i]).
C22_OutputFeasible ==
    (Ensured /\ ValidProfile(bess)) =>
        \A i \in 1..(NRows(cop) - 1) :
            LET soc == cop.rows[i].soc_begin
                delta == cop.rows[i + 1].soc_begin - soc
            IN /\ 0 - MaxDischarge(bess, soc) <= delta
               /\ delta <= MaxCharge(bess, soc)

\* a repair of a sequence that starts below min_soc and asks for more
\* charge than one hour allows
C22_Witness ==
    /\ Ensured /\ ValidProfile(bess)
    /\ NRows(cop) = MaxLen
    /\ args.cop.rows[1].soc_begin < bess.min_soc
    /\ args.cop.rows[2].soc_begin - args.cop.rows[1].soc_begin
         > MaxCharge(bess, args.cop.rows[1].soc_begin)
    /\ cop.rows[2].soc_begin # args.cop.rows[2].soc_begin

\* every SOC of the sequence is within the limits and every adjacent change
\* within what one hour can charge or discharge
FeasibleSequence(b, df) ==
    /\ \A i \in 1..NRows(df) : InRange(b, df.rows[i].soc_begin)
    /\ \A i \in 1..(NRows(df) - 1) :
          LET soc == df.rows[i].soc_begin
              delta == df.rows[i + 1].soc_begin - soc
          IN 0 - MaxDischarge(b, soc) <= delta /\ delta <= MaxCharge(b, soc)

\* C23: _ensure_soc_feasibility is the identity on feasible input: given a
\* sequence with every soc_begin within [min_soc, max_soc] and every
\* adjacent change within [-max_discharge, max_charge], it changes no
\* soc_begin and no target_mw.
C23_IdentityOnFeasible ==
    (Ensured /\ FeasibleSequence(bess, args.cop)) =>
        /\ SocBegins(cop) = SocBegins(args.cop)
        /\ Targets(cop) = Targets(args.cop)
        /\ cop.index = args.cop.index

\* a first repair of a feasible sequence that both charges and discharges
C23_Witness ==
    /\ Ensured
    /\ NRows(args.cop) = MaxLen
    /\ FeasibleSequence(bess, args.cop)
    /\ args.cop.rows[2].soc_begin > args.cop.rows[1].soc_begin
    /\ args.cop.rows[3].soc_begin < args.cop.rows[2].soc_begin
    /\ cop = args.cop

-----------------------------------------------------------------------------
(* Further properties of the plans generate_cop returns. *)

\* C24: in the plan generate_cop returns the overlay's result survives:
\* every hour of the plan with a regulation commitment above 0 has status
\* ONREG and target_mw = 0.
C24_OverlaySurvives ==
    (Generated /\ args.as_commitments.given) =>
        \A i \in CommittedRows :
            Positive(Committed(i, "regulation")) =>
                /\ cop.rows[i].status = "ONREG"
                /\ cop.rows[i].target_mw = 0

\* 0.5 * max_soc of the profile
HalfOfMax == bess.max_soc \div 2

\* C25 as claimed: the first hour of the plan generate_cop returns has
\* soc_begin = 0.5 * max_soc for every profile with 0 <= min_soc < max_soc,
\* also when min_soc is above half of max_soc.
C25_FirstSocHalf ==
    (Generated /\ NRows(cop) > 0 /\ 0 <= bess.min_soc /\ bess.min_soc < bess.max_soc)
    => cop.rows[1].soc_begin = HalfOfMax

\* C25: the first hour of the plan generate_cop returns has soc_begin =
\* 0.5 * max_soc clipped into [min_soc, max_soc], which is min_soc for a
\* profile whose min_soc is above half of max_soc (0 <= min_soc < max_soc).
C25_FirstSocClipped ==
    (Generated /\ NRows(cop) > 0 /\ 0 <= bess.min_soc /\ bess.min_soc < bess.max_soc)
    => cop.rows[1].soc_begin = Larger(bess.min_soc, HalfOfMax)

\* a plan for a profile whose min_soc is above half of max_soc
C25_Witness ==
    /\ Generated /\ NRows(cop) > 0
    /\ 0 <= bess.min_soc /\ bess.min_soc < bess.max_soc
    /\ HalfOfMax < bess.min_soc
    /\ cop.rows[1].soc_begin = bess.min_soc

\* the working bracket an hour would have were it taken from its soc_begin
BracketMin(b, r) == PyMax(b.min_soc, Sub(r.soc_begin, r.hsl))

BracketMax(b, r) == PyMin(b.max_soc, Add(r.soc_begin, TimesEff(Abs(r.lsl), b)))

\* C26: in the plan generate_cop returns without AS commitments every
\* hour's bracket agrees with its soc_begin: soc_min = max(min_soc,
\* soc_begin - hsl) and soc_max = min(max_soc, soc_begin + |lsl| *
\* efficiency), so that soc_min <= soc_begin <= soc_max and validate raises
\* no SOC_MIN_INCONSISTENT or SOC_MAX_INCONSISTENT warning on the plan.
C26_BracketAgrees ==
    (Generated /\ ValidProfile(bess) /\ ~args.as_commitments.given) =>
        /\ \A i \in 1..NRows(cop) :
              LET r == cop.rows[i]
              IN /\ r.soc_min = BracketMin(bess, r)
                 /\ r.soc_max = BracketMax(bess, r)
                 /\ r.soc_min <= r.soc_begin /\ r.soc_begin <= r.soc_max
        /\ (op = "validated" /\ report.raised = "no") =>
              Types(report.warnings) \cap
                  {"SOC_MIN_INCONSISTENT", "SOC_MAX_INCONSISTENT"} = {}

-----------------------------------------------------------------------------
(* Properties of a validator over several calls. *)

Revalidated == op = "revalidated"

\* the k-th results dict validate returned, as it reads now
ReportNow(k) == Deref(heap, reports[k].results)

\* C27: no findings leak between validate calls on one validator: after any
\* sequence of calls every results dict returned so far, read now, holds
\* exactly what a fresh validator returns for the plan of its call, so an
\* earlier report is not altered by a later call; and what the last call
\* returned is what a fresh validator returns for its plan.
C27_NoLeak ==
    Revalidated =>
        /\ \A k \in 1..Len(reports) :
               ReportNow(k) = validate(bess, reports[k].plan)
        /\ report = validate(bess, cop)
        /\ heap[validator.validation_errors] = RunChecks(bess, cop).errors
        /\ heap[validator.validation_warnings] = RunChecks(bess, cop).warnings

\* three calls, one of them ended by a KeyError: the first report carries
\* errors and warnings, the second nothing but the horizon warning
C27_Witness ==
    /\ Revalidated
    /\ Len(reports) = 2 /\ Len(heap) = 8
    /\ ReportNow(1).error_count > 0
    /\ ReportNow(1).warning_count > 1
    /\ ReportNow(2).valid
    /\ ReportNow(2).warning_count = 1
    /\ report = ReportNow(2)

\* hour i of cop has lsl <= target_mw <= hsl
TargetWithin(i) ==
    /\ cop.rows[i].lsl <= cop.rows[i].target_mw
    /\ cop.rows[i].target_mw <= cop.rows[i].hsl

ImpliedChange(b, target_mw) ==
    IF target_mw > 0 THEN 0 - target_mw
    ELSE IF target_mw < 0 THEN TimesEff(0 - target_mw, b)
    ELSE 0

\* C29: the repaired trajectory agrees with the final targets: in the plan
\* generate_cop returns without AS commitments, every hour whose successor's
\* soc_begin lies strictly between min_soc and max_soc changes the SOC by
\* what its target_mw implies (-target_mw discharging, -target_mw *
\* efficiency charging, 0 holding).
C29_TrajectoryMatchesTargets ==
    (Generated /\ ValidProfile(bess) /\ ~args.as_commitments.given) =>
        \A i \in 1..(NRows(cop) - 1) :
            (/\ bess.min_soc < cop.rows[i + 1].soc_begin
             /\ cop.rows[i + 1].soc_begin < bess.max_soc)
            => cop.rows[i + 1].soc_begin - cop.rows[i].soc_begin
                 = ImpliedChange(bess, cop.rows[i].target_mw)

-----------------------------------------------------------------------------
(* What the overlay leaves alone. *)

OverlayColumns == {"status", "target_mw", "soc_min"}

\* the commitments have a positive value for the hour of row i
PositivelyCommitted(i) ==
    /\ i \in CommittedRows
    /\ \/ Positive(Committed(i, "regulation"))
       \/ Positive(Committed(i, "rrs"))
       \/ Positive(Committed(i, "ecrs"))

\* C30: _apply_as_commitments changes only status, target_mw and soc_min,
\* and only at hours of the plan for which the commitments hold a positive
\* regulation, rrs or ecrs value: every other hour keeps all its fields,
\* every hour keeps soc_begin, soc_max, hsl, lsl and the rest, the hours
\* are as many and in the same order, and rows of the commitments for
\* hours outside the plan change nothing.
C30_OverlayFrame ==
    Overlaid =>
        /\ cop.index = args.cop.index
        /\ cop.columns = args.cop.columns
        /\ NRows(cop) = NRows(args.cop)
        /\ \A i \in 1..NRows(cop) :
              /\ DOMAIN cop.rows[i] = DOMAIN args.cop.rows[i]
              /\ \A c \in (DOMAIN cop.rows[i]) \ OverlayColumns :
                    cop.rows[i][c] = args.cop.rows[i][c]
              /\ ~PositivelyCommitted(i) => cop.rows[i] = args.cop.rows[i]

\* commitments with a row before the plan's first hour, a row of zeros or
\* none for some hour and a positive row that changed its hour
C30_Witness ==
    /\ Overlaid
    /\ \E hour \in DOMAIN args.as_commitments.rows :
          /\ \A i \in 1..NRows(cop) : cop.index[i] # hour
          /\ Positive(AsValue(args.as_commitments, hour, "regulation"))
    /\ \E i \in 1..NRows(cop) :
          PositivelyCommitted(i) /\ cop.rows[i] # args.cop.rows[i]
    /\ \E i \in 1..NRows(cop) : ~PositivelyCommitted(i)

=============================================================================
